---- MODULE Spec2Model ----
(***************************************************************************)
(* A model of the command multiplexer of chrome-cdp (src/connection.rs):   *)
(* CdpConnection::connect spawns a writer task and a reader task around    *)
(* one WebSocket; CdpConnection::send_command assigns an identifier, hands *)
(* the command and a oneshot responder to the writer through an unbounded  *)
(* mpsc queue, and awaits the responder.                                   *)
(*                                                                         *)
(* Every task is cut at its await points.  A oneshot channel is named by   *)
(* the call that created it, so "responder c" is the Sender half of the    *)
(* channel of call c and slot[c] is the state of that channel.             *)
(*                                                                         *)
(* The second half models src/browser.rs: BrowserManager (the state slot   *)
(* behind its lock, get_browser, the inactivity monitor, the handles and   *)
(* the processes), and CdpBrowser::launch's port wait and endpoint         *)
(* resolution.  Each component has its own specification; the variables of *)
(* the other components stay as Init left them.                            *)
(***************************************************************************)
EXTENDS Integers, Sequences, FiniteSets, TLC

\* ------------------------------------------------------------------ bounds
\* Number of send_command calls issued on the connection.
NumCalls == 2

Calls == 1..NumCalls

\* Number of get_browser calls made on the BrowserManager.
NumGets == 2

Gets == 1..NumGets

\* The clock runs from 0 to MaxTime seconds in steps of TickSecs seconds.
MaxTime == 420
TickSecs == 30

\* The largest max_retries given to get_ws_url_with_retry.
MaxRetries == 3

\* The browsers that were launched, and the largest number of handles
\* (clones of the Arc) on one of them.
NumBrowsers == 2
Browsers == 1..NumBrowsers
MaxArcs == 2

\* The largest number of lines Chrome writes to its log.
MaxLines == 2

\* The largest timeout_secs given to wait_for_element, and the longest time
\* one evaluate takes, in units of 500 ms.
MaxTimeoutSecs == 2
MaxEvalHalves == 1

\* The max_retries that launch gives to get_ws_url_with_retry, twice.
LaunchRetries == 10

\* `for _ in 0..300` of the port wait.
PortPolls == 300

\* The ports Chrome may announce and the statuses it may exit with.
Ports == {9222}
ExitStatuses == {0, 1}

\* sleep(Duration::from_secs(60)) and Duration::from_secs(5 * 60) of the
\* inactivity monitor.
MonitorPeriodSecs == 60
IdleThresholdSecs == 5 * 60

\* ------------------------------------------------------- values and frames
\* An Option / a JSON field that may be absent: <<>> is None, <<x>> is Some(x).
None == <<>>
Some(x) == <<x>>

\* The result payload the peer puts in a "result" field (an opaque JSON value).
ResultVals == {"r1"}

\* The "error" field of an inbound message: its "code" and "message" members
\* may be missing (or of the wrong JSON type), which as_i64 / as_str report
\* as None.
ErrorVals ==
    { [code |-> Some(-32601), message |-> Some("Method not found")],
      [code |-> None,         message |-> None] }

\* The "id" field of an inbound message.  A u64 identifier is kept as its two
\* 32-bit halves, hi * 2^32 + lo; "other" is a value as_u64 rejects (a string,
\* a negative number, a float).
IdAbsent == [kind |-> "absent", hi |-> 0, lo |-> 0]
IdOther == [kind |-> "other", hi |-> 0, lo |-> 0]
IdU64(h, l) == [kind |-> "u64", hi |-> h, lo |-> l]
IdVals ==
    {IdAbsent, IdOther} \cup {IdU64(h, l) : h \in {0, 1}, l \in 1..NumCalls}

\* What read.next() yields: Some(Ok(Message::Text)) with parseable JSON,
\* Text that is not JSON, a non-text message (Binary, Ping, Pong, Frame),
\* Message::Close, Some(Err(_)), or None at the end of the stream.
Frame(k, i, r, e) == [kind |-> k, id |-> i, result |-> r, error |-> e]
ResultFields == {None} \cup {Some(v) : v \in ResultVals}
ErrorFields == {None} \cup {Some(x) : x \in ErrorVals}
TextFrames ==
    { Frame("text", i, r, e) : i \in IdVals, r \in ResultFields, e \in ErrorFields }
BadJson == Frame("badjson", IdAbsent, None, None)
NonText == Frame("nontext", IdAbsent, None, None)
CloseFrame == Frame("close", IdAbsent, None, None)
ReadError == Frame("error", IdAbsent, None, None)
StreamEnd == Frame("end", IdAbsent, None, None)
Frames == TextFrames \cup {BadJson, NonText, CloseFrame, ReadError, StreamEnd}

\* Result<Value>: Ok(value) or Err(Error::Cdp(string)).  The formatted string
\* "CDP error for command {id}: {code} - {message}" is kept as its parts.
Ok(v) == [ok |-> TRUE, val |-> v, err |-> <<>>]
Err(e) == [ok |-> FALSE, val |-> "", err |-> e]
CdpError(id, code, message) == Err(<<"CDP error for command", id, code, message>>)
SendFailed == Err(<<"Failed to send command to channel">>)
ChannelClosed == Err(<<"Response channel closed">>)

\* Option::unwrap_or.
UnwrapOr(opt, d) == IF opt = None THEN d ELSE opt[1]

\* as_u64 taking any "id" value for identifier 1.
AsU64Lenient(i) == IF i.kind = "u64" THEN Some(i) ELSE Some(IdU64(0, 1))

\* v["id"].as_u64(): Some for an unsigned integer, None otherwise.
AsU64(i) == IF i.kind = "u64" THEN Some(i) ELSE None

\* `id as u32`: keeps the low 32 bits of the u64.
AsU32(i) == i.lo

VARIABLES
    next_id,    \* CdpConnection.next_id, the counter behind the mutex
    pc,         \* position of each send_command call
    cid,        \* the identifier each call took (0: none yet)
    slot,       \* the oneshot channel of each call
    ret,        \* what each send_command call returned (None: not yet)
    queue,      \* the unbounded mpsc channel command_tx -> command_rx
    wpc,        \* position of the writer task
    wcur,       \* the command the writer task holds
    pending,    \* the pending table, identifier -> responder
    rpc,        \* position of the reader task
    wire,       \* identifiers sent on the WebSocket, in order (history)
    assigned,   \* identifiers in the order they were handed out (history)
    submitted,  \* identifiers in the order they entered the queue (history)
    sends,      \* responder.send calls made on each responder (history)
    resolvedBy, \* what the message that removed each call's entry held (history)
    atExit,     \* the calls in the pending table when the reader ended (history)
    failed,     \* the calls whose transmission failed (history)
    rlast,      \* what the reader task did with the last frame (history)
    answered    \* the identifiers a well-behaved peer has answered

VARIABLES
    now,        \* the monotonic clock (Instant::now()), in seconds
    last_used,  \* BrowserState.last_used
    browser,    \* BrowserState.browser: 0 is None, b the Arc of browser b
    state_lock, \* the get_browser call holding BrowserManager.state (0: free)
    gpc,        \* position of each get_browser call
    gret,       \* what each get_browser call returned (None: not yet)
    held,       \* the browser whose Arc each caller holds (0: none)
    running,    \* the Chrome processes that are running
    nspawn,     \* processes spawned so far; the next one is nspawn + 1
    mwake,      \* when the monitor's sleep(60 s) ends
    stored,     \* the browsers that have been in the slot (history)
    contended,  \* the calls that started while a launch held the lock (history)
    discards    \* browsers the monitor has discarded (history)

VARIABLES
    polls,        \* iterations of the port wait's loop that found no port
    port,         \* the Option<u16> shared by the scanner and the port wait
    scanner,      \* the log scanner task: "scanning" or "done"
    child_status, \* None while Chrome runs, Some(status) once it has exited
    wait_ret      \* what the port wait returned (None: not yet)

VARIABLES
    rstep,       \* position of the get_ws_url_with_retry call
    max_retries, \* its argument max_retries
    attempt,     \* attempts that have failed (the loop variable)
    last_error,  \* its local last_error
    sleeps,      \* sleep(retry_delay) calls made (history)
    retry_ret,   \* what get_ws_url_with_retry returned (None: not yet)
    http,        \* the HTTP exchange of the last get_ws_url call (history)
    url_ret      \* what the last get_ws_url call returned (history)

VARIABLES
    log          \* the lines of chrome_stderr.log written so far

VARIABLES
    arcs,        \* strong count of the Arc<CdpBrowser> of each browser
    process,     \* CdpBrowser.process of each browser: Some(child) or None
    child,       \* each child: running, or how it ended
    kills,       \* the results of the process.kill() calls on each child (history)
    drop_ret     \* how Drop::drop ended for each browser (None: not run)

VARIABLES
    lstep,       \* position of the CdpBrowser::launch call
    launch_ret   \* what CdpBrowser::launch returned (None: not yet)

VARIABLES
    epc,          \* position of the wait_for_element call
    timeout_secs, \* its argument timeout_secs
    elapsed,      \* start.elapsed(), in units of 500 ms
    evals,        \* evaluate calls it has made (history)
    eval_in,      \* what send_command returned to the last evaluate (history)
    eval_ret,     \* what the last evaluate returned (history)
    wfe_ret       \* what wait_for_element returned (None: not yet)

connVars ==
    << next_id, pc, cid, slot, ret, queue, wpc, wcur, pending, rpc, wire,
       assigned, submitted, sends, resolvedBy, atExit, failed, rlast,
       answered >>

mgrVars ==
    << now, last_used, browser, state_lock, gpc, gret, held, running, nspawn,
       mwake, stored, contended, discards >>

waitVars == << polls, port, scanner, child_status, wait_ret >>

resolveVars ==
    << rstep, max_retries, attempt, last_error, sleeps, retry_ret, http,
       url_ret >>

scanVars == << log >>

\* The variables of the components added to the three above.
dropVars == << arcs, process, child, kills, drop_ret >>

launchVars == << lstep, launch_ret >>

pageVars ==
    << epc, timeout_secs, elapsed, evals, eval_in, eval_ret, wfe_ret >>

extraVars == << scanVars, dropVars, launchVars, pageVars >>

browserVars == << mgrVars, waitVars, resolveVars, extraVars >>

vars == << connVars, browserVars >>

callerVars == << next_id, pc, cid, ret, assigned >>
writerVars == << queue, wpc, wcur, wire, submitted, failed >>
readerVars == << rpc, resolvedBy, atExit, rlast, answered >>

\* A child process: running, exited by itself with a status, or killed.
Running == [st |-> "running", status |-> 0]
Exited(status) == [st |-> "exited", status |-> status]
Killed == [st |-> "killed", status |-> 0]

\* ---------------------------------------------------------------- helpers
\* A oneshot channel: "none" before oneshot::channel(), "open" while the
\* Sender lives and nothing was sent, "sent" with the value, "closed" once
\* the Sender was dropped without sending.
NoSlot == [st |-> "none", val |-> None]
OpenSlot == [st |-> "open", val |-> None]

EmptyMap == [k \in {} |-> 0]

\* Dropping the responders (oneshot Senders) of the calls in S.
DropResponders(S, sl) ==
    [c \in Calls |->
        IF c \in S /\ sl[c].st = "open" THEN [st |-> "closed", val |-> None]
        ELSE sl[c]]

\* responder.send(v): fails, and v is discarded, when the Receiver is gone.
ResponderSend(c, v, sl) ==
    IF pc[c] = "awaiting" /\ sl[c].st = "open"
    THEN [sl EXCEPT ![c] = [st |-> "sent", val |-> Some(v)]]
    ELSE sl

Range(f) == {f[k] : k \in DOMAIN f}

\* The pending table lives in an Arc shared by the two tasks: it is dropped,
\* with every responder in it, when the second of them ends.
PendingAfterTaskEnd(otherEnded, p) == IF otherEnded THEN EmptyMap ELSE p
SlotsAfterTaskEnd(otherEnded, p, sl) ==
    IF otherEnded THEN DropResponders(Range(p), sl) ELSE sl

\* The state after CdpConnection::connect, and after BrowserManager::new
\* (an empty slot, last_used = Instant::now(), the monitor in its first sleep).
Init ==
    /\ next_id = 1
    /\ pc = [c \in Calls |-> "start"]
    /\ cid = [c \in Calls |-> 0]
    /\ slot = [c \in Calls |-> NoSlot]
    /\ ret = [c \in Calls |-> None]
    /\ queue = <<>>
    /\ wpc = "recv"
    /\ wcur = None
    /\ pending = EmptyMap
    /\ rpc = "running"
    /\ wire = <<>>
    /\ assigned = <<>>
    /\ submitted = <<>>
    /\ sends = [c \in Calls |-> 0]
    /\ resolvedBy = [c \in Calls |-> "none"]
    /\ atExit = {}
    /\ failed = {}
    /\ rlast = "none"
    /\ answered = {}
    /\ now = 0
    /\ last_used = 0
    /\ browser = 0
    /\ state_lock = 0
    /\ gpc = [c \in Gets |-> "idle"]
    /\ gret = [c \in Gets |-> None]
    /\ held = [c \in Gets |-> 0]
    /\ running = {}
    /\ nspawn = 0
    /\ mwake = MonitorPeriodSecs
    /\ stored = {}
    /\ contended = {}
    /\ discards = 0
    /\ polls = 0
    /\ port = None
    /\ scanner = "scanning"
    /\ child_status = None
    /\ wait_ret = None
    /\ rstep = "idle"
    /\ max_retries = 0
    /\ attempt = 0
    /\ last_error = None
    /\ sleeps = 0
    /\ retry_ret = None
    /\ http = None
    /\ url_ret = None
    /\ log = <<>>
    /\ arcs = [b \in Browsers |-> 1]
    /\ process = [b \in Browsers |-> Some(b)]
    /\ child = [b \in Browsers |-> Running]
    /\ kills = [b \in Browsers |-> <<>>]
    /\ drop_ret = [b \in Browsers |-> None]
    /\ lstep = "spawn"
    /\ launch_ret = None
    /\ epc = "idle"
    /\ timeout_secs = 0
    /\ elapsed = 0
    /\ evals = 0
    /\ eval_in = None
    /\ eval_ret = None
    /\ wfe_ret = None

\* ------------------------------------------------------------ send_command
\* AssignId with the increment lost (the counter read but not updated under
\* the lock).
AssignIdNoIncrement(c) ==
    /\ pc[c] = "start"
    /\ \A d \in 1..(c - 1) : pc[d] # "start"
    /\ cid' = [cid EXCEPT ![c] = next_id]
    /\ assigned' = Append(assigned, next_id)
    /\ pc' = [pc EXCEPT ![c] = "assigned"]
    /\ UNCHANGED << next_id, slot, ret, pending, sends >>
    /\ UNCHANGED writerVars
    /\ UNCHANGED readerVars
    /\ UNCHANGED browserVars

\* AssignId incrementing before it reads (identifiers start at 2).
AssignIdPreIncrement(c) ==
    /\ pc[c] = "start"
    /\ \A d \in 1..(c - 1) : pc[d] # "start"
    /\ cid' = [cid EXCEPT ![c] = next_id + 1]
    /\ next_id' = next_id + 1
    /\ assigned' = Append(assigned, next_id + 1)
    /\ pc' = [pc EXCEPT ![c] = "assigned"]
    /\ UNCHANGED << slot, ret, pending, sends >>
    /\ UNCHANGED writerVars
    /\ UNCHANGED readerVars
    /\ UNCHANGED browserVars

\* let id = { lock; id = *next_id; *next_id += 1; id }: the block holds the
\* mutex and has no await in it.  Calls are interchangeable until they take
\* the lock, so they are named in the order in which they take it.  next_id
\* is a u32; NumCalls keeps it far below 2^32 - 1, where `+= 1` overflows.
AssignId(c) ==
    /\ pc[c] = "start"
    /\ \A d \in 1..(c - 1) : pc[d] # "start"
    /\ cid' = [cid EXCEPT ![c] = next_id]
    /\ next_id' = next_id + 1
    /\ assigned' = Append(assigned, next_id)
    /\ pc' = [pc EXCEPT ![c] = "assigned"]
    /\ UNCHANGED << slot, ret, pending, sends >>
    /\ UNCHANGED writerVars
    /\ UNCHANGED readerVars
    /\ UNCHANGED browserVars

\* Submit retrying the hand-over: the command is queued a second time.
SubmitRequeues(c) ==
    /\ pc[c] = "assigned"
    /\ IF wpc = "stopped"
       THEN /\ ret' = [ret EXCEPT ![c] = Some(SendFailed)]
            /\ pc' = [pc EXCEPT ![c] = "returned"]
            /\ UNCHANGED << slot, queue, submitted >>
       ELSE /\ queue' = queue \o << [id |-> cid[c], resp |-> c],
                                    [id |-> cid[c], resp |-> c] >>
            /\ submitted' = Append(submitted, cid[c])
            /\ slot' = [slot EXCEPT ![c] = OpenSlot]
            /\ pc' = [pc EXCEPT ![c] = "awaiting"]
            /\ UNCHANGED ret
    /\ UNCHANGED << next_id, cid, assigned, wpc, wcur, wire, failed, pending, sends >>
    /\ UNCHANGED readerVars
    /\ UNCHANGED browserVars

\* oneshot::channel(); command_tx.send(..) fails once command_rx is dropped,
\* which happens when the writer task ends.
Submit(c) ==
    /\ pc[c] = "assigned"
    /\ IF wpc = "stopped"
       THEN /\ ret' = [ret EXCEPT ![c] = Some(SendFailed)]
            /\ pc' = [pc EXCEPT ![c] = "returned"]
            /\ UNCHANGED << slot, queue, submitted >>
       ELSE /\ queue' = Append(queue, [id |-> cid[c], resp |-> c])
            /\ submitted' = Append(submitted, cid[c])
            /\ slot' = [slot EXCEPT ![c] = OpenSlot]
            /\ pc' = [pc EXCEPT ![c] = "awaiting"]
            /\ UNCHANGED ret
    /\ UNCHANGED << next_id, cid, assigned, wpc, wcur, wire, failed, pending, sends >>
    /\ UNCHANGED readerVars
    /\ UNCHANGED browserVars

\* Await reporting a dropped responder with the error of a closed queue.
AwaitClosedAsSendFailed(c) ==
    /\ pc[c] = "awaiting"
    /\ slot[c].st \in {"sent", "closed"}
    /\ ret' = [ret EXCEPT ![c] =
                 IF slot[c].st = "sent" THEN slot[c].val ELSE Some(SendFailed)]
    /\ pc' = [pc EXCEPT ![c] = "returned"]
    /\ UNCHANGED << next_id, cid, assigned, slot, pending, sends >>
    /\ UNCHANGED writerVars
    /\ UNCHANGED readerVars
    /\ UNCHANGED browserVars

\* rx.await.map_err(|_| "Response channel closed")?
Await(c) ==
    /\ pc[c] = "awaiting"
    /\ slot[c].st \in {"sent", "closed"}
    /\ ret' = [ret EXCEPT ![c] =
                 IF slot[c].st = "sent" THEN slot[c].val ELSE Some(ChannelClosed)]
    /\ pc' = [pc EXCEPT ![c] = "returned"]
    /\ UNCHANGED << next_id, cid, assigned, slot, pending, sends >>
    /\ UNCHANGED writerVars
    /\ UNCHANGED readerVars
    /\ UNCHANGED browserVars

\* The caller drops the send_command future while it awaits the response:
\* the Receiver is dropped with it.
Abandon(c) ==
    /\ pc[c] = "awaiting"
    /\ pc' = [pc EXCEPT ![c] = "abandoned"]
    /\ UNCHANGED << next_id, cid, assigned, ret, slot, pending, sends >>
    /\ UNCHANGED writerVars
    /\ UNCHANGED readerVars
    /\ UNCHANGED browserVars

\* ------------------------------------------------------------- writer task
\* WriterRecv taking the newest command of the queue instead of the oldest.
WriterRecvNewest ==
    /\ wpc = "recv"
    /\ queue # <<>>
    /\ wcur' = Some(queue[Len(queue)])
    /\ queue' = SubSeq(queue, 1, Len(queue) - 1)
    /\ wpc' = "insert"
    /\ UNCHANGED << wire, submitted, failed, slot, pending, sends >>
    /\ UNCHANGED callerVars
    /\ UNCHANGED readerVars
    /\ UNCHANGED browserVars

\* command_rx.recv().await
WriterRecv ==
    /\ wpc = "recv"
    /\ queue # <<>>
    /\ wcur' = Some(Head(queue))
    /\ queue' = Tail(queue)
    /\ wpc' = "insert"
    /\ UNCHANGED << wire, submitted, failed, slot, pending, sends >>
    /\ UNCHANGED callerVars
    /\ UNCHANGED readerVars
    /\ UNCHANGED browserVars

\* WriterInsert with the insertion left out before the transmission.
WriterInsertOmitted ==
    /\ wpc = "insert"
    /\ wpc' = "send"
    /\ UNCHANGED << queue, wcur, wire, submitted, failed, slot, pending, sends >>
    /\ UNCHANGED callerVars
    /\ UNCHANGED readerVars
    /\ UNCHANGED browserVars

\* pending_clone.lock().await.insert(id, responder): HashMap::insert replaces
\* an entry with the same key, and the replaced responder is dropped.
WriterInsert ==
    /\ wpc = "insert"
    /\ LET cmd == wcur[1]
           old == IF cmd.id \in DOMAIN pending THEN {pending[cmd.id]} ELSE {}
       IN /\ pending' = [k \in DOMAIN pending \cup {cmd.id} |->
                            IF k = cmd.id THEN cmd.resp ELSE pending[k]]
          /\ slot' = DropResponders(old, slot)
    /\ wpc' = "send"
    /\ UNCHANGED << queue, wcur, wire, submitted, failed, sends >>
    /\ UNCHANGED callerVars
    /\ UNCHANGED readerVars
    /\ UNCHANGED browserVars

\* write.send(Message::Text(..)).await returned Ok.
WriterSendOk ==
    /\ wpc = "send"
    /\ wire' = Append(wire, wcur[1].id)
    /\ wcur' = None
    /\ wpc' = "recv"
    /\ UNCHANGED << queue, submitted, failed, slot, pending, sends >>
    /\ UNCHANGED callerVars
    /\ UNCHANGED readerVars
    /\ UNCHANGED browserVars

\* WriterSendErr ending the task with command_rx kept alive: the queue stays
\* open and the commands in it keep their responders.
WriterSendErrKeepsQueue ==
    /\ wpc = "send"
    /\ failed' = failed \cup {wcur[1].resp}
    /\ wcur' = None
    /\ wpc' = "stopped"
    /\ pending' = PendingAfterTaskEnd(rpc = "stopped", pending)
    /\ slot' = SlotsAfterTaskEnd(rpc = "stopped", pending, slot)
    /\ UNCHANGED << queue, wire, submitted, sends >>
    /\ UNCHANGED callerVars
    /\ UNCHANGED readerVars
    /\ UNCHANGED browserVars

\* write.send(..) returned Err: eprintln, break.  The task ends: command_rx
\* is dropped with the commands still queued (and their responders), and so
\* is the writer's handle on the pending table.
WriterSendErr ==
    /\ wpc = "send"
    /\ failed' = failed \cup {wcur[1].resp}
    /\ wcur' = None
    /\ wpc' = "stopped"
    /\ queue' = <<>>
    /\ pending' = PendingAfterTaskEnd(rpc = "stopped", pending)
    /\ slot' = DropResponders({queue[i].resp : i \in 1..Len(queue)},
                              SlotsAfterTaskEnd(rpc = "stopped", pending, slot))
    /\ UNCHANGED << wire, submitted, sends >>
    /\ UNCHANGED callerVars
    /\ UNCHANGED readerVars
    /\ UNCHANGED browserVars

\* ------------------------------------------------------------- reader task
\* Outcome with the two branches in the other order (a "result" field wins
\* over an "error" field).
OutcomeResultFirst(id, f) ==
    IF f.result # None
    THEN Some(Ok(f.result[1]))
    ELSE IF f.error # None
    THEN Some(CdpError(id, UnwrapOr(f.error[1].code, -1),
                           UnwrapOr(f.error[1].message, "unknown")))
    ELSE None

\* Outcome reading the missing "result" field as JSON null (v["result"] in
\* place of v.get("result")) and sending it as the success value.
OutcomeNeitherAsNull(id, f) ==
    IF f.error # None
    THEN Some(CdpError(id, UnwrapOr(f.error[1].code, -1),
                           UnwrapOr(f.error[1].message, "unknown")))
    ELSE IF f.result # None
    THEN Some(Ok(f.result[1]))
    ELSE Some(Ok("null"))

\* The outcome the reader sends for a matched message: the error branch when
\* an "error" field is present, else the result branch when a "result" field
\* is present, else nothing (the responder is dropped at the end of the block).
Outcome(id, f) ==
    IF f.error # None
    THEN Some(CdpError(id, UnwrapOr(f.error[1].code, -1),
                           UnwrapOr(f.error[1].message, "unknown")))
    ELSE IF f.result # None
    THEN Some(Ok(f.result[1]))
    ELSE None

\* Which of the two payload fields a message holds.
Holds(f) ==
    IF f.error # None THEN "error"
    ELSE IF f.result # None THEN "result"
    ELSE "neither"

\* ReaderText delivering the outcome and leaving the entry in the table.
ReaderTextKeepsEntry(f) ==
    /\ f.kind = "text"
    /\ IF AsU64(f.id) # None /\ AsU32(AsU64(f.id)[1]) \in DOMAIN pending
       THEN LET id == AsU32(AsU64(f.id)[1])
                c == pending[id]
                out == Outcome(id, f)
            IN /\ pending' = pending
               /\ resolvedBy' = [resolvedBy EXCEPT ![c] = Holds(f)]
               /\ rlast' = "matched"
               /\ IF out # None
                  THEN /\ slot' = ResponderSend(c, out[1], slot)
                       /\ sends' = [sends EXCEPT ![c] = @ + 1]
                  ELSE /\ slot' = DropResponders({c}, slot)
                       /\ UNCHANGED sends
       ELSE /\ rlast' = "unmatched"
            /\ UNCHANGED << pending, slot, sends, resolvedBy >>
    /\ UNCHANGED << rpc, atExit >>

\* ReaderText ending the reader task when the responder's send fails (the
\* Receiver is gone) instead of ignoring the failure.
ReaderTextStopsOnSendFailure(f) ==
    /\ f.kind = "text"
    /\ IF AsU64(f.id) # None /\ AsU32(AsU64(f.id)[1]) \in DOMAIN pending
       THEN LET id == AsU32(AsU64(f.id)[1])
                c == pending[id]
                out == Outcome(id, f)
            IN /\ pending' = [k \in DOMAIN pending \ {id} |-> pending[k]]
               /\ resolvedBy' = [resolvedBy EXCEPT ![c] = Holds(f)]
               /\ rlast' = "matched"
               /\ rpc' = IF out # None /\ pc[c] # "awaiting"
                         THEN "stopped" ELSE rpc
               /\ IF out # None
                  THEN /\ slot' = ResponderSend(c, out[1], slot)
                       /\ sends' = [sends EXCEPT ![c] = @ + 1]
                  ELSE /\ slot' = DropResponders({c}, slot)
                       /\ UNCHANGED sends
       ELSE /\ rlast' = "unmatched"
            /\ UNCHANGED << pending, slot, sends, resolvedBy, rpc >>
    /\ UNCHANGED atExit

\* Ok(Message::Text(text)) whose text parses as JSON.
ReaderText(f) ==
    /\ f.kind = "text"
    /\ IF AsU64(f.id) # None /\ AsU32(AsU64(f.id)[1]) \in DOMAIN pending
       THEN LET id == AsU32(AsU64(f.id)[1])
                c == pending[id]
                out == Outcome(id, f)
            IN /\ pending' = [k \in DOMAIN pending \ {id} |-> pending[k]]
               /\ resolvedBy' = [resolvedBy EXCEPT ![c] = Holds(f)]
               /\ rlast' = "matched"
               /\ IF out # None
                  THEN /\ slot' = ResponderSend(c, out[1], slot)
                       /\ sends' = [sends EXCEPT ![c] = @ + 1]
                  ELSE /\ slot' = DropResponders({c}, slot)
                       /\ UNCHANGED sends
       ELSE /\ rlast' = "unmatched"
            /\ UNCHANGED << pending, slot, sends, resolvedBy >>
    /\ UNCHANGED << rpc, atExit >>

\* ReaderIgnore ending the reader task on a frame it cannot use.
ReaderIgnoreStops(f) ==
    /\ f.kind \in {"badjson", "nontext"}
    /\ rlast' = "ignored"
    /\ rpc' = "stopped"
    /\ UNCHANGED << pending, slot, sends, resolvedBy, atExit >>

\* Text that is not JSON (serde_json::from_str fails) and the `_ => {}` arm.
ReaderIgnore(f) ==
    /\ f.kind \in {"badjson", "nontext"}
    /\ rlast' = "ignored"
    /\ UNCHANGED << pending, slot, sends, resolvedBy, rpc, atExit >>

\* ReaderExit failing every pending command before the task ends.
ReaderExitSweeps(f) ==
    /\ f.kind \in {"close", "error", "end"}
    /\ rpc' = "stopped"
    /\ rlast' = "exit"
    /\ atExit' = Range(pending)
    /\ pending' = EmptyMap
    /\ slot' = [c \in Calls |->
                  IF c \in Range(pending) /\ slot[c].st = "open"
                  THEN [st |-> "sent", val |-> Some(Err(<<"connection closed">>))]
                  ELSE slot[c]]
    /\ UNCHANGED << sends, resolvedBy >>

\* Ok(Message::Close(_)) => break, Err(e) => break, and None ending the
\* `while let`: the task ends and drops its handle on the pending table.
ReaderExit(f) ==
    /\ f.kind \in {"close", "error", "end"}
    /\ rpc' = "stopped"
    /\ rlast' = "exit"
    /\ atExit' = Range(pending)
    /\ pending' = PendingAfterTaskEnd(wpc = "stopped", pending)
    /\ slot' = SlotsAfterTaskEnd(wpc = "stopped", pending, slot)
    /\ UNCHANGED << sends, resolvedBy >>

\* One iteration of `while let Some(msg) = read.next().await`, on frame f.
ReaderFrame(f) ==
    /\ rpc = "running"
    /\ UNCHANGED callerVars
    /\ UNCHANGED writerVars
    /\ UNCHANGED browserVars
    /\ \/ ReaderText(f)
       \/ ReaderIgnore(f)
       \/ ReaderExit(f)

\* The peer sends any frame, and the reader task takes it.
ReaderStep(f) ==
    /\ ReaderFrame(f)
    /\ UNCHANGED answered

\* The connection with callers that keep waiting for their response.
Next ==
    \/ \E c \in Calls : AssignId(c)
    \/ \E c \in Calls : Submit(c)
    \/ \E c \in Calls : Await(c)
    \/ WriterRecv
    \/ WriterInsert
    \/ WriterSendOk
    \/ WriterSendErr
    \/ \E f \in Frames : ReaderStep(f)

Spec == Init /\ [][Next]_vars

\* The same connection with callers whose rx.await is polled once the channel
\* holds a value or has lost its Sender (the runtime wakes the waiting task).
FairCallers == \A c \in Calls : WF_vars(Await(c))

SpecFair == Init /\ [][Next]_vars /\ FairCallers

\* The connection with callers that may also give up waiting.
NextCancel ==
    \/ Next
    \/ \E c \in Calls : Abandon(c)

SpecCancel == Init /\ [][NextCancel]_vars

\* A well-behaved peer answers command k, which it has received and not yet
\* answered, with a result or an error, and the reader task takes the answer.
WireIds == {wire[i] : i \in 1..Len(wire)}
ProperAnswers(k) ==
    { Frame("text", IdU64(0, k), r, e) :
        r \in ResultFields, e \in ErrorFields } \ {Frame("text", IdU64(0, k), None, None)}
PeerAnswers(k) ==
    /\ k \in WireIds \ answered
    /\ answered' = answered \cup {k}
    /\ \E f \in ProperAnswers(k) : ReaderFrame(f)

\* The connection while its WebSocket stays open (no transmission fails, the
\* stream neither fails nor closes) and the peer sends nothing but one answer
\* to each command it received.
NextOpen ==
    \/ \E c \in Calls : AssignId(c)
    \/ \E c \in Calls : Submit(c)
    \/ \E c \in Calls : Await(c)
    \/ \E c \in Calls : Abandon(c)
    \/ WriterRecv
    \/ WriterInsert
    \/ WriterSendOk
    \/ \E k \in 1..NumCalls : PeerAnswers(k)

\* The tokio runtime polls every ready task again (callers, writer, reader),
\* an open WebSocket accepts a message, and the peer answers: each of these
\* steps is taken if it stays possible.  Nothing obliges a caller to give up.
FairOpen ==
    /\ \A c \in Calls : WF_vars(AssignId(c)) /\ WF_vars(Submit(c)) /\ WF_vars(Await(c))
    /\ WF_vars(WriterRecv) /\ WF_vars(WriterInsert) /\ WF_vars(WriterSendOk)
    /\ \A k \in 1..NumCalls : WF_vars(PeerAnswers(k))

SpecOpen == Init /\ [][NextOpen]_vars /\ FairOpen

\* ========================================================= BrowserManager
\* Result<Arc<CdpBrowser>> of get_browser: the browser, or the error of the
\* step of CdpBrowser::launch that failed.
Launched(b) == [ok |-> TRUE, browser |-> b, err |-> <<>>]
LaunchError(e) == [ok |-> FALSE, browser |-> 0, err |-> e]

\* Failures before the child exists (create_dir_all, File::create, spawn: an
\* Io error) and after it (port wait, endpoint resolution, process ownership).
SpawnFailed == LaunchError(<<"Io">>)
ResolveFailed == LaunchError(<<"Browser, Http or Json">>)

\* The strong count of the Arc<CdpBrowser> of browser b: the slot's clone and
\* the callers' clones.
SlotRefs(b, br) == IF br = b THEN {0} ELSE {}
Referenced(b, br, h) == SlotRefs(b, br) # {} \/ \E c \in Gets : h[c] = b

\* Drop for CdpBrowser runs when the last Arc goes: process.kill().  The
\* processes left running after the references became br and h.
AfterDrops(br, h) ==
    {b \in running : b \notin stored \/ Referenced(b, br, h)}

\* A new get_browser call starts and queues on the state lock.  Calls are
\* named in the order in which they start.
GetBrowserCall(c) ==
    /\ gpc[c] = "idle"
    /\ \A d \in 1..(c - 1) : gpc[d] # "idle"
    /\ gpc' = [gpc EXCEPT ![c] = "waiting"]
    /\ contended' = IF state_lock # 0 THEN contended \cup {c} ELSE contended
    /\ UNCHANGED << now, last_used, browser, state_lock, gret, held, running,
                    nspawn, mwake, stored, discards >>
    /\ UNCHANGED << connVars, waitVars, resolveVars, extraVars >>

\* GetBrowserLock giving the lock back before it launches.
GetBrowserLockNotHeld(c) ==
    /\ gpc[c] = "waiting"
    /\ state_lock = 0
    /\ last_used' = now
    /\ IF browser # 0
       THEN /\ gret' = [gret EXCEPT ![c] = Some(Launched(browser))]
            /\ held' = [held EXCEPT ![c] = browser]
            /\ gpc' = [gpc EXCEPT ![c] = "done"]
       ELSE /\ gpc' = [gpc EXCEPT ![c] = "launching"]
            /\ UNCHANGED << gret, held >>
    /\ UNCHANGED << now, browser, state_lock, running, nspawn, mwake, stored,
                    discards >>
    /\ UNCHANGED contended
    /\ UNCHANGED << connVars, waitVars, resolveVars, extraVars >>

\* GetBrowserLock testing the idle time itself: a browser found in the slot
\* with last_used older than the threshold is replaced by a new launch.
GetBrowserLockChecksIdle(c) ==
    /\ gpc[c] = "waiting"
    /\ state_lock = 0
    /\ last_used' = now
    /\ IF browser # 0 /\ now - last_used <= IdleThresholdSecs
       THEN /\ gret' = [gret EXCEPT ![c] = Some(Launched(browser))]
            /\ held' = [held EXCEPT ![c] = browser]
            /\ gpc' = [gpc EXCEPT ![c] = "done"]
            /\ UNCHANGED << state_lock, browser, running >>
       ELSE /\ gpc' = [gpc EXCEPT ![c] = "launching"]
            /\ state_lock' = c
            /\ browser' = 0
            /\ running' = AfterDrops(0, held)
            /\ UNCHANGED << gret, held >>
    /\ UNCHANGED << now, nspawn, mwake, stored, discards >>
    /\ UNCHANGED contended
    /\ UNCHANGED << connVars, waitVars, resolveVars, extraVars >>

\* let mut s = self.state.lock().await; s.last_used = Instant::now(); then
\* either `return Ok(Arc::clone(browser))`, which releases the lock, or the
\* call goes on to CdpBrowser::launch(..).await with the lock held.
GetBrowserLock(c) ==
    /\ gpc[c] = "waiting"
    /\ state_lock = 0
    /\ last_used' = now
    /\ IF browser # 0
       THEN /\ gret' = [gret EXCEPT ![c] = Some(Launched(browser))]
            /\ held' = [held EXCEPT ![c] = browser]
            /\ gpc' = [gpc EXCEPT ![c] = "done"]
            /\ UNCHANGED state_lock
       ELSE /\ gpc' = [gpc EXCEPT ![c] = "launching"]
            /\ state_lock' = c
            /\ UNCHANGED << gret, held >>
    /\ UNCHANGED << now, browser, running, nspawn, mwake, stored, discards >>
    /\ UNCHANGED contended
    /\ UNCHANGED << connVars, waitVars, resolveVars, extraVars >>

\* cmd.spawn() returned Ok: the child runs; the port wait and the endpoint
\* resolution follow.
LaunchSpawn(c) ==
    /\ gpc[c] = "launching"
    /\ nspawn' = nspawn + 1
    /\ running' = running \cup {nspawn + 1}
    /\ gpc' = [gpc EXCEPT ![c] = "resolving"]
    /\ UNCHANGED << now, last_used, browser, state_lock, gret, held, mwake,
                    stored, discards >>
    /\ UNCHANGED contended
    /\ UNCHANGED << connVars, waitVars, resolveVars, extraVars >>

\* LaunchFail leaving the child it spawned in the slot.
LaunchFailKeepsBrowser(c) ==
    /\ gpc[c] \in {"launching", "resolving"}
    /\ gret' = [gret EXCEPT ![c] =
                  Some(IF gpc[c] = "launching" THEN SpawnFailed ELSE ResolveFailed)]
    /\ browser' = IF gpc[c] = "resolving" THEN nspawn ELSE browser
    /\ gpc' = [gpc EXCEPT ![c] = "done"]
    /\ state_lock' = 0
    /\ UNCHANGED << now, last_used, held, running, nspawn, mwake, stored,
                    discards >>
    /\ UNCHANGED contended
    /\ UNCHANGED << connVars, waitVars, resolveVars, extraVars >>

\* A step of CdpBrowser::launch returned Err and `?` returns it from
\* get_browser: the guard is dropped, the slot was not written.  A child that
\* was spawned is dropped as a std::process::Child, which does not kill it.
LaunchFail(c) ==
    /\ gpc[c] \in {"launching", "resolving"}
    /\ gret' = [gret EXCEPT ![c] =
                  Some(IF gpc[c] = "launching" THEN SpawnFailed ELSE ResolveFailed)]
    /\ gpc' = [gpc EXCEPT ![c] = "done"]
    /\ state_lock' = 0
    /\ UNCHANGED << now, last_used, browser, held, running, nspawn, mwake,
                    stored, discards >>
    /\ UNCHANGED contended
    /\ UNCHANGED << connVars, waitVars, resolveVars, extraVars >>

\* launch returned Ok(Self { process: Some(process), .. }):
\* s.browser = Some(Arc::clone(&browser)); Ok(browser).
LaunchOk(c) ==
    /\ gpc[c] = "resolving"
    /\ browser' = nspawn
    /\ stored' = stored \cup {nspawn}
    /\ gret' = [gret EXCEPT ![c] = Some(Launched(nspawn))]
    /\ held' = [held EXCEPT ![c] = nspawn]
    /\ gpc' = [gpc EXCEPT ![c] = "done"]
    /\ state_lock' = 0
    /\ UNCHANGED << now, last_used, running, nspawn, mwake, discards >>
    /\ UNCHANGED contended
    /\ UNCHANGED << connVars, waitVars, resolveVars, extraVars >>

\* The caller drops the Arc<CdpBrowser> it was given.
DropHandle(c) ==
    /\ held[c] # 0
    /\ held' = [held EXCEPT ![c] = 0]
    /\ running' = AfterDrops(browser, held')
    /\ UNCHANGED << now, last_used, browser, state_lock, gpc, gret, nspawn,
                    mwake, stored, discards >>
    /\ UNCHANGED contended
    /\ UNCHANGED << connVars, waitVars, resolveVars, extraVars >>

\* MonitorWake going back to sleep without looking at the slot.
MonitorWakeKeepsBrowser ==
    /\ now >= mwake
    /\ state_lock = 0
    /\ mwake' = now + MonitorPeriodSecs
    /\ UNCHANGED << browser, discards, running >>
    /\ UNCHANGED << now, last_used, state_lock, gpc, gret, held, nspawn, stored >>
    /\ UNCHANGED contended
    /\ UNCHANGED << connVars, waitVars, resolveVars, extraVars >>

\* MonitorWake discarding whatever the slot holds.
MonitorWakeIgnoresIdle ==
    /\ now >= mwake
    /\ state_lock = 0
    /\ mwake' = now + MonitorPeriodSecs
    /\ IF browser # 0
       THEN /\ browser' = 0
            /\ discards' = discards + 1
            /\ running' = AfterDrops(0, held)
       ELSE UNCHANGED << browser, discards, running >>
    /\ UNCHANGED << now, last_used, state_lock, gpc, gret, held, nspawn, stored >>
    /\ UNCHANGED contended
    /\ UNCHANGED << connVars, waitVars, resolveVars, extraVars >>

\* One iteration of the monitor's loop once its sleep has ended: lock;
\* if s.browser.is_some() && s.last_used.elapsed() > 5 * 60 s { s.browser =
\* None }; unlock; sleep again.  Nothing awaits between lock and unlock.
MonitorWake ==
    /\ now >= mwake
    /\ state_lock = 0
    /\ mwake' = now + MonitorPeriodSecs
    /\ IF browser # 0 /\ now - last_used > IdleThresholdSecs
       THEN /\ browser' = 0
            /\ discards' = discards + 1
            /\ running' = AfterDrops(0, held)
       ELSE UNCHANGED << browser, discards, running >>
    /\ UNCHANGED << now, last_used, state_lock, gpc, gret, held, nspawn, stored >>
    /\ UNCHANGED contended
    /\ UNCHANGED << connVars, waitVars, resolveVars, extraVars >>

\* Time passes.  A free lock is taken at once by a task that waits for it,
\* and the monitor's timer fires on time: the clock passes neither a call
\* waiting for the free lock nor the end of the monitor's sleep while the
\* lock is free.  While a launch holds the lock, time passes freely.
Tick ==
    /\ now + TickSecs <= MaxTime
    /\ state_lock = 0 => now < mwake /\ \A c \in Gets : gpc[c] # "waiting"
    /\ now' = now + TickSecs
    /\ UNCHANGED << last_used, browser, state_lock, gpc, gret, held, running,
                    nspawn, mwake, stored, discards >>
    /\ UNCHANGED contended
    /\ UNCHANGED << connVars, waitVars, resolveVars, extraVars >>

NextManager ==
    \/ \E c \in Gets : GetBrowserCall(c)
    \/ \E c \in Gets : GetBrowserLock(c)
    \/ \E c \in Gets : LaunchSpawn(c)
    \/ \E c \in Gets : LaunchFail(c)
    \/ \E c \in Gets : LaunchOk(c)
    \/ \E c \in Gets : DropHandle(c)
    \/ MonitorWake
    \/ Tick

SpecManager == Init /\ [][NextManager]_vars

\* The manager with the monitor task scheduled when its sleep has ended and
\* the lock is free, and with time passing.
FairManager == WF_vars(MonitorWake) /\ WF_vars(Tick)

SpecManagerFair == Init /\ [][NextManager]_vars /\ FairManager

\* ================================================ CdpBrowser::launch, port
\* The part of launch between cmd.spawn() and the endpoint resolution: the
\* log scanner task publishes the port it reads in Chrome's stderr file and
\* the blocking task polls for it.  In Init the child has just been spawned.

\* What the blocking task returns: Ok(p), or Err(Error::Browser(err_msg))
\* whose last paragraph tells whether the child has exited.
PortFound(p) == [ok |-> TRUE, port |-> p, says |-> "", status |-> 0]
ExitedEarly(st) ==
    [ok |-> FALSE, port |-> 0, says |-> "exited early with status", status |-> st]
StillRunning ==
    [ok |-> FALSE, port |-> 0,
     says |-> "still running but debugging port was not found", status |-> 0]

\* The scanner reads "DevTools listening on ws://127.0.0.1:<p>/.." in the
\* stderr file and stores Some(p); it returns at once.
ScannerFinds(p) ==
    /\ scanner = "scanning"
    /\ port' = Some(p)
    /\ scanner' = "done"
    /\ UNCHANGED << polls, child_status, wait_ret >>
    /\ UNCHANGED << connVars, mgrVars, resolveVars, extraVars >>

\* The scanner's 30 seconds are over.
ScannerGivesUp ==
    /\ scanner = "scanning"
    /\ scanner' = "done"
    /\ UNCHANGED << polls, port, child_status, wait_ret >>
    /\ UNCHANGED << connVars, mgrVars, resolveVars, extraVars >>

\* Chrome exits with status st.
ChildExits(st) ==
    /\ child_status = None
    /\ child_status' = Some(st)
    /\ UNCHANGED << polls, port, scanner, wait_ret >>
    /\ UNCHANGED << connVars, mgrVars, resolveVars, extraVars >>

\* One iteration of `for _ in 0..300`: return Ok(p) when the port is there,
\* else sleep 100 ms.
PollPort ==
    /\ wait_ret = None
    /\ polls < PortPolls
    /\ IF port # None
       THEN wait_ret' = Some(PortFound(port[1])) /\ UNCHANGED polls
       ELSE polls' = polls + 1 /\ UNCHANGED wait_ret
    /\ UNCHANGED << port, scanner, child_status >>
    /\ UNCHANGED << connVars, mgrVars, resolveVars, extraVars >>

\* WaitTimeout reporting a live child whatever try_wait says.
WaitTimeoutSaysRunning ==
    /\ wait_ret = None
    /\ polls = PortPolls
    /\ wait_ret' = Some(StillRunning)
    /\ UNCHANGED << polls, port, scanner, child_status >>
    /\ UNCHANGED << connVars, mgrVars, resolveVars, extraVars >>

\* The loop has ended: the error message is built, process.try_wait() tells
\* whether the child has exited (Ok(Some(status))) or not, Err(Browser(..)).
\* try_wait on a child that this process owns and has not reaped reports its
\* state.
WaitTimeout ==
    /\ wait_ret = None
    /\ polls = PortPolls
    /\ wait_ret' = Some(IF child_status # None
                        THEN ExitedEarly(child_status[1])
                        ELSE StillRunning)
    /\ UNCHANGED << polls, port, scanner, child_status >>
    /\ UNCHANGED << connVars, mgrVars, resolveVars, extraVars >>

NextPortWait ==
    \/ \E p \in Ports : ScannerFinds(p)
    \/ ScannerGivesUp
    \/ \E st \in ExitStatuses : ChildExits(st)
    \/ PollPort
    \/ WaitTimeout

SpecPortWait == Init /\ [][NextPortWait]_vars

\* ============================================ CdpBrowser::launch, log scan
\* A string is the sequence of its characters.
Marker ==
    << "D", "e", "v", "T", "o", "o", "l", "s", " ", "l", "i", "s", "t",
       "e", "n", "i", "n", "g", " ", "o", "n" >>
Separator ==
    << "1", "2", "7", ".", "0", ".", "0", ".", "1", ":" >>
Slash == "/"
Digits == << "0", "1", "2", "3", "4", "5", "6", "7", "8", "9" >>

\* u16::MAX.
U16Max == 65535

MinOf(S) == CHOOSE x \in S : \A y \in S : x <= y

\* The positions of s at which pat starts.
Occurrences(s, pat) ==
    {i \in 1..(Len(s) - Len(pat) + 1) :
        \A k \in 1..Len(pat) : s[i + k - 1] = pat[k]}

\* str::contains.
Contains(s, pat) == Occurrences(s, pat) # {}

\* s.split(pat).nth(1): what follows the first occurrence of pat, up to the
\* next occurrence of pat or the end of s; None when pat does not occur.
SplitNth1(s, pat) ==
    LET occ == Occurrences(s, pat)
        from == MinOf(occ) + Len(pat)
        later == {j \in occ : j >= from}
        to == IF later = {} THEN Len(s) ELSE MinOf(later) - 1
    IN IF occ = {} THEN None ELSE Some(SubSeq(s, from, to))

\* s.split(ch).next(): s up to its first ch, the whole of s without one.
SplitFirst(s, ch) ==
    LET at == {i \in 1..Len(s) : s[i] = ch}
    IN IF at = {} THEN s ELSE SubSeq(s, 1, MinOf(at) - 1)

IsDigit(ch) == \E k \in 1..10 : Digits[k] = ch
DigitValue(ch) == (CHOOSE k \in 1..10 : Digits[k] = ch) - 1

RECURSIVE Decimal(_)
Decimal(ds) ==
    IF ds = <<>> THEN 0
    ELSE Decimal(SubSeq(ds, 1, Len(ds) - 1)) * 10 + DigitValue(ds[Len(ds)])

\* str::parse::<u16>: an optional "+", then one or more decimal digits whose
\* value fits in 16 bits.
ParseU16(t) ==
    LET ds == IF t # <<>> /\ t[1] = "+" THEN Tail(t) ELSE t
        n == Decimal(ds)
    IN IF ds # <<>> /\ (\A i \in 1..Len(ds) : IsDigit(ds[i])) /\ n <= U16Max
       THEN Some(n)
       ELSE None

\* ParseLine taking the text up to the slash that follows the first separator
\* even when the separator occurs again before it.
ParseLineToSlash(line) ==
    LET occ == Occurrences(line, Separator)
        from == MinOf(occ) + Len(Separator)
    IN IF ~Contains(line, Marker) \/ occ = {} THEN None
       ELSE ParseU16(SplitFirst(SubSeq(line, from, Len(line)), Slash))

\* ParseLine without the test for the marker.
ParseLineAnyLine(line) ==
    LET port_str == SplitNth1(line, Separator)
    IN IF port_str = None THEN None
       ELSE ParseU16(SplitFirst(port_str[1], Slash))

\* The body of `for line in content.lines()`: the port the line gives.
ParseLine(line) ==
    LET port_str == SplitNth1(line, Separator)
    IN IF ~Contains(line, Marker) THEN None
       ELSE IF port_str = None THEN None
       ELSE ParseU16(SplitFirst(port_str[1], Slash))

\* One pass over the file: the port of the first line that gives one.
ScanFile(lines) ==
    LET ports == [i \in 1..Len(lines) |-> ParseLine(lines[i])]
        hits == {i \in 1..Len(lines) : ports[i] # None}
    IN IF hits = {} THEN None ELSE ports[MinOf(hits)]

\* The lines Chrome may write: the announcement with one of several tokens
\* in the place of the port, the announcement cut after the port, followed by
\* another path or by the separator again, and lines without the marker or
\* without the separator, or with a separator before the marker.
WsScheme ==
    << " ", "w", "s", ":", "/", "/" >>
BrowserPath ==
    << "/", "d", "e", "v", "t", "o", "o", "l", "s", "/", "b", "r", "o",
       "w", "s", "e", "r", "/", "a", "b", "c" >>
Port9222 == << "9", "2", "2", "2" >>
Tokens ==
    { Port9222, << "6", "5", "5", "3", "5" >>, << "6", "5", "5", "3", "6" >>,
      << "+", "8", "0" >>, << "9", "2", "x" >>, << >> }
Announcement(t) == Marker \o WsScheme \o Separator \o t
LogLines ==
    { Announcement(t) \o BrowserPath : t \in Tokens }
    \cup { Announcement(Port9222),
           Announcement(Port9222) \o << "/", "1" >>,
           Announcement(Port9222) \o Separator \o << "2", "2", "/" >>,
           WsScheme \o Separator \o Port9222 \o BrowserPath,
           Marker \o WsScheme \o Port9222 \o BrowserPath,
           Separator \o << "1", "/" >> \o Announcement(Port9222) \o BrowserPath }

\* Chrome appends a line to its stderr file.
ChromeWrites(line) ==
    /\ Len(log) < MaxLines
    /\ log' = Append(log, line)
    /\ UNCHANGED << connVars, mgrVars, waitVars, resolveVars, dropVars, launchVars, pageVars >>

\* One iteration of the scanner's `while`: read the file, go through its
\* lines, store the port and return, or sleep 100 ms.
ScanPass ==
    /\ scanner = "scanning"
    /\ LET found == ScanFile(log)
       IN IF found # None
          THEN port' = found /\ scanner' = "done"
          ELSE UNCHANGED << port, scanner >>
    /\ UNCHANGED << polls, child_status, wait_ret, log >>
    /\ UNCHANGED << connVars, mgrVars, resolveVars, dropVars, launchVars, pageVars >>

\* start.elapsed().as_secs() >= 30 ends the scanner's loop.
ScanEnds ==
    /\ ScannerGivesUp
    /\ UNCHANGED log

NextScan ==
    \/ \E line \in LogLines : ChromeWrites(line)
    \/ ScanPass
    \/ ScanEnds

SpecScan == Init /\ [][NextScan]_vars

\* ======================================================= Drop for CdpBrowser
\* The browsers that CdpBrowser::launch returned, each behind an Arc (the
\* slot's clone and the callers' clones).  In Init each has one Arc, tracks
\* its child, and the child runs.

\* What process.kill() returns: Ok(()) for a running child, which it kills;
\* for a child that has exited, Ok(()) or an error, depending on the platform
\* and on whether the child was reaped.
KillResults(c) == IF c.st = "running" THEN {"Ok"} ELSE {"Ok", "Err"}

\* Arc::clone.
CloneArc(b) ==
    /\ arcs[b] \in 1..(MaxArcs - 1)
    /\ arcs' = [arcs EXCEPT ![b] = @ + 1]
    /\ UNCHANGED << process, child, kills, drop_ret >>
    /\ UNCHANGED << connVars, mgrVars, waitVars, resolveVars, scanVars, launchVars, pageVars >>

\* An Arc is dropped and others remain.
ReleaseArc(b) ==
    /\ arcs[b] > 1
    /\ arcs' = [arcs EXCEPT ![b] = @ - 1]
    /\ UNCHANGED << process, child, kills, drop_ret >>
    /\ UNCHANGED << connVars, mgrVars, waitVars, resolveVars, scanVars, launchVars, pageVars >>

\* Chrome exits by itself.
ChildEnds(b, status) ==
    /\ child[b] = Running
    /\ child' = [child EXCEPT ![b] = Exited(status)]
    /\ UNCHANGED << arcs, process, kills, drop_ret >>
    /\ UNCHANGED << connVars, mgrVars, waitVars, resolveVars, scanVars, launchVars, pageVars >>

\* DropBrowser with `process.kill().unwrap()`: a failed kill panics.
DropBrowserUnwraps(b, r) ==
    /\ arcs[b] = 1
    /\ arcs' = [arcs EXCEPT ![b] = 0]
    /\ r \in KillResults(child[b])
    /\ process' = [process EXCEPT ![b] = None]
    /\ kills' = [kills EXCEPT ![b] = Append(@, r)]
    /\ child' = [child EXCEPT ![b] = IF @ = Running THEN Killed ELSE @]
    /\ drop_ret' = [drop_ret EXCEPT ![b] =
                      Some(IF r = "Ok" THEN "returned" ELSE "panicked")]
    /\ UNCHANGED << connVars, mgrVars, waitVars, resolveVars, scanVars, launchVars, pageVars >>

\* DropBrowser with `if let Some(process) = &mut self.process`: the child is
\* killed and stays tracked.
DropBrowserKeepsProcess(b, r) ==
    /\ arcs[b] = 1
    /\ arcs' = [arcs EXCEPT ![b] = 0]
    /\ r \in KillResults(child[b])
    /\ UNCHANGED process
    /\ kills' = [kills EXCEPT ![b] = Append(@, r)]
    /\ child' = [child EXCEPT ![b] = IF @ = Running THEN Killed ELSE @]
    /\ drop_ret' = [drop_ret EXCEPT ![b] = Some("returned")]
    /\ UNCHANGED << connVars, mgrVars, waitVars, resolveVars, scanVars, launchVars, pageVars >>

\* The last Arc is dropped and Drop::drop runs: self.process.take() leaves
\* None; `let _ = process.kill()` ignores the result r of the kill.
DropBrowser(b, r) ==
    /\ arcs[b] = 1
    /\ arcs' = [arcs EXCEPT ![b] = 0]
    /\ IF process[b] # None
       THEN /\ r \in KillResults(child[b])
            /\ process' = [process EXCEPT ![b] = None]
            /\ kills' = [kills EXCEPT ![b] = Append(@, r)]
            /\ child' = [child EXCEPT ![b] = IF @ = Running THEN Killed ELSE @]
       ELSE /\ r = "Ok"
            /\ UNCHANGED << process, kills, child >>
    /\ drop_ret' = [drop_ret EXCEPT ![b] = Some("returned")]
    /\ UNCHANGED << connVars, mgrVars, waitVars, resolveVars, scanVars, launchVars, pageVars >>

NextDrop ==
    \/ \E b \in Browsers : CloneArc(b)
    \/ \E b \in Browsers : ReleaseArc(b)
    \/ \E b \in Browsers : \E status \in ExitStatuses : ChildEnds(b, status)
    \/ \E b \in Browsers : \E r \in {"Ok", "Err"} : DropBrowser(b, r)

SpecDrop == Init /\ [][NextDrop]_vars

\* ====================================== CdpBrowser: endpoint resolution
\* The body of an HTTP response, by what serde_json and as_str make of it:
\* text that is not JSON; JSON whose "webSocketDebuggerUrl" is a string; JSON
\* where it is of another type; JSON without it (value[..] is Null then, as
\* it is on a JSON value that is not an object).
Body(p, f, u) == [parse |-> p, field |-> f, url |-> u]
NoBody == Body("none", "absent", "")
Urls == {"ws://localhost:9222/devtools/page/ABC123", ""}
Bodies ==
    {Body("json", "string", u) : u \in Urls}
      \cup {Body("json", "other", ""), Body("json", "absent", ""),
            Body("notjson", "absent", "")}

\* One GET /json/version: client.get(..).send() fails, or yields a status;
\* response.text() then fails or yields the body.
Exchange(s, st, r, b) == [send |-> s, status |-> st, read |-> r, body |-> b]
Statuses == {199, 200, 299, 300, 404}
Exchanges ==
    {Exchange("fail", 0, "none", NoBody)}
      \cup {Exchange("ok", st, "fail", NoBody) : st \in Statuses}
      \cup {Exchange("ok", st, "ok", b) : st \in Statuses, b \in Bodies}

\* StatusCode::is_success: 200..=299.
IsSuccess(st) == st >= 200 /\ st <= 299

\* Result<String>: Ok(url), Error::Http(..), Error::Json(..) and the two
\* Error::Browser(..) of get_ws_url, with the status and the body that their
\* messages hold.
OkUrl(u) == [ok |-> TRUE, url |-> u, kind |-> "", says |-> "", status |-> 0, body |-> NoBody]
UrlError(k, m, st, b) ==
    [ok |-> FALSE, url |-> "", kind |-> k, says |-> m, status |-> st, body |-> b]
HttpConnectError == UrlError("Http", "Failed to connect", 0, NoBody)
HttpReadError == UrlError("Http", "Failed to read response", 0, NoBody)
StatusError(st, b) == UrlError("Browser", "returned error status", st, b)
JsonError == UrlError("Json", "", 0, NoBody)
FieldAbsentError(b) ==
    UrlError("Browser", "does not contain webSocketDebuggerUrl", 0, b)
NoAttemptError == UrlError("Browser", "Failed to get WebSocket URL after retries", 0, NoBody)

\* get_ws_url looking for the field before it looks at the status.
GetWsUrlFieldFirst(x) ==
    IF x.send = "fail" THEN HttpConnectError
    ELSE IF x.read = "fail" THEN HttpReadError
    ELSE IF x.body.parse = "json" /\ x.body.field = "string" THEN OkUrl(x.body.url)
    ELSE IF ~IsSuccess(x.status) THEN StatusError(x.status, x.body)
    ELSE IF x.body.parse # "json" THEN JsonError
    ELSE FieldAbsentError(x.body)

\* get_ws_url on the exchange x: send()?, text()?, the status test,
\* serde_json::from_str(&body)?, value["webSocketDebuggerUrl"].as_str().
GetWsUrl(x) ==
    IF x.send = "fail" THEN HttpConnectError
    ELSE IF x.read = "fail" THEN HttpReadError
    ELSE IF ~IsSuccess(x.status) THEN StatusError(x.status, x.body)
    ELSE IF x.body.parse # "json" THEN JsonError
    ELSE IF x.body.field = "string" THEN OkUrl(x.body.url)
    ELSE FieldAbsentError(x.body)

\* get_ws_url_with_retry(port, n, delay) is called.
RetryCall(n) ==
    /\ rstep = "idle"
    /\ max_retries' = n
    /\ rstep' = "attempt"
    /\ UNCHANGED << attempt, last_error, sleeps, retry_ret, http, url_ret >>
    /\ UNCHANGED << connVars, mgrVars, waitVars, extraVars >>

\* RetryAttempt sleeping after every failed attempt, the last one too.
RetryAttemptAlwaysSleeps(x) ==
    /\ rstep = "attempt"
    /\ attempt < max_retries
    /\ http' = Some(x)
    /\ url_ret' = Some(GetWsUrl(x))
    /\ IF GetWsUrl(x).ok
       THEN /\ retry_ret' = Some(GetWsUrl(x))
            /\ rstep' = "done"
            /\ UNCHANGED << attempt, last_error >>
       ELSE /\ last_error' = Some(GetWsUrl(x))
            /\ attempt' = attempt + 1
            /\ rstep' = "sleep"
            /\ UNCHANGED retry_ret
    /\ UNCHANGED << max_retries, sleeps >>
    /\ UNCHANGED << connVars, mgrVars, waitVars, extraVars >>

\* RetryAttempt without the count of the attempts: it tries until it succeeds.
RetryAttemptForever(x) ==
    /\ rstep = "attempt"
    /\ attempt < max_retries
    /\ http' = Some(x)
    /\ url_ret' = Some(GetWsUrl(x))
    /\ IF GetWsUrl(x).ok
       THEN /\ retry_ret' = Some(GetWsUrl(x))
            /\ rstep' = "done"
            /\ UNCHANGED last_error
       ELSE /\ last_error' = Some(GetWsUrl(x))
            /\ rstep' = "sleep"
            /\ UNCHANGED retry_ret
    /\ UNCHANGED << max_retries, attempt, sleeps >>
    /\ UNCHANGED << connVars, mgrVars, waitVars, extraVars >>

\* One iteration of `for attempt in 0..max_retries`, the exchange being x:
\* Ok(url) => return Ok(url); Err(e) => last_error = Some(e), and the sleep
\* follows if attempt < max_retries - 1.
RetryAttempt(x) ==
    /\ rstep = "attempt"
    /\ attempt < max_retries
    /\ http' = Some(x)
    /\ url_ret' = Some(GetWsUrl(x))
    /\ IF GetWsUrl(x).ok
       THEN /\ retry_ret' = Some(GetWsUrl(x))
            /\ rstep' = "done"
            /\ UNCHANGED << attempt, last_error >>
       ELSE /\ last_error' = Some(GetWsUrl(x))
            /\ attempt' = attempt + 1
            /\ rstep' = IF attempt < max_retries - 1 THEN "sleep" ELSE "attempt"
            /\ UNCHANGED retry_ret
    /\ UNCHANGED << max_retries, sleeps >>
    /\ UNCHANGED << connVars, mgrVars, waitVars, extraVars >>

\* sleep(retry_delay).await
RetrySleep ==
    /\ rstep = "sleep"
    /\ sleeps' = sleeps + 1
    /\ rstep' = "attempt"
    /\ UNCHANGED << max_retries, attempt, last_error, retry_ret, http, url_ret >>
    /\ UNCHANGED << connVars, mgrVars, waitVars, extraVars >>

\* The loop is over: Err(last_error.unwrap_or_else(|| Browser("Failed to get
\* WebSocket URL after retries"))).
RetryExhausted ==
    /\ rstep = "attempt"
    /\ attempt = max_retries
    /\ retry_ret' = Some(UnwrapOr(last_error, NoAttemptError))
    /\ rstep' = "done"
    /\ UNCHANGED << max_retries, attempt, last_error, sleeps, http, url_ret >>
    /\ UNCHANGED << connVars, mgrVars, waitVars, extraVars >>

NextResolve ==
    \/ \E n \in 0..MaxRetries : RetryCall(n)
    \/ \E x \in Exchanges : RetryAttempt(x)
    \/ RetrySleep
    \/ RetryExhausted

SpecResolve == Init /\ [][NextResolve]_vars

\* ========================================================= CdpBrowser::launch
\* The whole of launch: the steps up to cmd.spawn(), the port wait, the first
\* endpoint resolution, the recovery of the child from its Arc, the second
\* endpoint resolution.  The port wait and the resolutions are the actions
\* above; the steps here join them.

\* Result<Self>: Ok(Self { process, port }) or the error of the failed step.
LaunchedOn(p) == [ok |-> TRUE, port |-> p, err |-> <<>>]
LaunchFailed(e) == [ok |-> FALSE, port |-> 0, err |-> e]

\* create_dir_all, File::create and cmd.spawn(): each returns, and `?` ends
\* launch with the Io error of the first that fails.
LaunchBegin(spawned) ==
    /\ lstep = "spawn"
    /\ IF spawned
       THEN lstep' = "port" /\ UNCHANGED launch_ret
       ELSE lstep' = "done" /\ launch_ret' = Some(LaunchFailed(<<"Io">>))
    /\ UNCHANGED << connVars, mgrVars, waitVars, resolveVars, scanVars, dropVars, pageVars >>

\* A step of the scanner, of Chrome or of the blocking task during the port
\* wait.
LaunchPortWait ==
    /\ lstep = "port"
    /\ NextPortWait

\* A new call of get_ws_url_with_retry(discovered_port, 10, 500 ms): its
\* locals are fresh.
ResolveAgain ==
    /\ rstep' = "attempt"
    /\ max_retries' = LaunchRetries
    /\ attempt' = 0
    /\ last_error' = None
    /\ sleeps' = 0
    /\ retry_ret' = None
    /\ http' = None
    /\ url_ret' = None

\* The blocking task has returned: `??` ends launch with its error, or the
\* first endpoint resolution is called.  The loop counter is gone.
LaunchAfterWait ==
    /\ lstep = "port"
    /\ wait_ret # None
    /\ polls' = 0
    /\ IF wait_ret[1].ok
       THEN /\ lstep' = "resolve"
            /\ ResolveAgain
            /\ UNCHANGED launch_ret
       ELSE /\ lstep' = "done"
            /\ launch_ret' = Some(LaunchFailed(<<"Browser", wait_ret[1].says>>))
            /\ UNCHANGED resolveVars
    /\ UNCHANGED << port, scanner, child_status, wait_ret >>
    /\ UNCHANGED << connVars, mgrVars, scanVars, dropVars, pageVars >>

\* A step of get_ws_url_with_retry, in the first or the second resolution.
LaunchResolve ==
    /\ lstep \in {"resolve", "verify"}
    /\ \/ \E x \in Exchanges : RetryAttempt(x)
       \/ RetrySleep
       \/ RetryExhausted

\* get_ws_url_with_retry has returned: `?` ends launch with its error; after
\* the first resolution Arc::try_unwrap(process) gives the child (the clone
\* held by the blocking task went with its closure) and the second
\* resolution is called; after the second, Ok(Self { .. }).
LaunchAfterResolve ==
    /\ lstep \in {"resolve", "verify"}
    /\ rstep = "done"
    /\ IF ~retry_ret[1].ok
       THEN /\ lstep' = "done"
            /\ launch_ret' = Some(LaunchFailed(<<retry_ret[1].kind, retry_ret[1].says>>))
            /\ UNCHANGED resolveVars
       ELSE IF lstep = "resolve"
       THEN /\ lstep' = "verify"
            /\ ResolveAgain
            /\ UNCHANGED launch_ret
       ELSE /\ lstep' = "done"
            /\ launch_ret' = Some(LaunchedOn(wait_ret[1].port))
            /\ UNCHANGED resolveVars
    /\ UNCHANGED << connVars, mgrVars, waitVars, scanVars, dropVars, pageVars >>

NextLaunch ==
    \/ \E spawned \in BOOLEAN : LaunchBegin(spawned)
    \/ LaunchPortWait
    \/ LaunchAfterWait
    \/ LaunchResolve
    \/ LaunchAfterResolve

\* The steps of the task that runs launch: each of them is taken once it can
\* be (the blocking task's sleeps end, each HTTP attempt returns).
LaunchTask ==
    \/ \E spawned \in BOOLEAN : LaunchBegin(spawned)
    \/ lstep = "port" /\ (PollPort \/ WaitTimeout)
    \/ LaunchAfterWait
    \/ LaunchResolve
    \/ LaunchAfterResolve

FairLaunch == WF_vars(LaunchTask)

SpecLaunch == Init /\ [][NextLaunch]_vars /\ FairLaunch

\* ==================================================================== CdpPage
\* JSON values as evaluate and wait_for_element look at them: null (also what
\* indexing gives for a missing member), a boolean, a string.
JNull == [t |-> "null", b |-> FALSE, s |-> ""]
JBool(b) == [t |-> "bool", b |-> b, s |-> ""]
JStr(s) == [t |-> "string", b |-> FALSE, s |-> s]

\* Value::as_bool.
AsBool(v) == IF v.t = "bool" THEN Some(v.b) ELSE None

\* The "exceptionDetails" member of a Runtime.evaluate result: each of
\* exception.description, text, lineNumber and columnNumber may be missing.
Details(d, t, l, c) == [description |-> d, text |-> t, line |-> l, column |-> c]
ExceptionDetails ==
    { Details(Some("ReferenceError: x is not defined"), Some("Alternative text"),
              Some(5), Some(10)),
      Details(None, Some("Error message"), None, None),
      Details(None, None, None, None) }

\* The result of Runtime.evaluate: its "exceptionDetails" member, if any, and
\* result["result"]["value"].
EvalResult(x, v) == [exception |-> x, value |-> v]
EvalResults ==
    { EvalResult(x, v) :
        x \in {None} \cup {Some(d) : d \in ExceptionDetails},
        v \in {JNull, JBool(TRUE), JBool(FALSE), JStr("true")} }

\* An Error of the crate, by its variant and the parts of its message.
PageError(k, m, l, c, t) ==
    [kind |-> k, says |-> m, line |-> l, column |-> c, text |-> t]
NoError == PageError("", "", 0, 0, "")
CommandErrors ==
    { PageError("Cdp", "Failed to send command to channel", 0, 0, ""),
      PageError("Cdp", "Response channel closed", 0, 0, ""),
      PageError("Cdp", "CDP error for command", 0, 0, "") }

\* Result<Value> of send_command("Runtime.evaluate", ..).
CommandOk(r) == [ok |-> TRUE, result |-> r, err |-> NoError]
CommandErr(e) == [ok |-> FALSE, result |-> EvalResult(None, JNull), err |-> e]
CommandReturns ==
    {CommandOk(r) : r \in EvalResults} \cup {CommandErr(e) : e \in CommandErrors}

\* Result<Value> of evaluate and Result<bool> of wait_for_element.
EvalOk(v) == [ok |-> TRUE, value |-> v, err |-> NoError]
EvalErr(e) == [ok |-> FALSE, value |-> JNull, err |-> e]
WaitOk(b) == [ok |-> TRUE, found |-> b, err |-> NoError]
WaitErr(e) == [ok |-> FALSE, found |-> FALSE, err |-> e]

\* exception["exception"]["description"].as_str().or_else(|| exception["text"]
\* .as_str()).unwrap_or("unknown error"), and the two numbers with -1.
ScriptError(x) ==
    PageError("Browser", "JavaScript execution error",
              UnwrapOr(x.line, -1), UnwrapOr(x.column, -1),
              UnwrapOr(x.description, UnwrapOr(x.text, "unknown error")))

\* Evaluate returning the value whatever the result holds.
EvaluateIgnoresException(r) ==
    IF ~r.ok THEN EvalErr(r.err)
    ELSE EvalOk(r.result.value)

\* evaluate, send_command having returned r: `?` passes its error on; an
\* "exceptionDetails" member makes the script error; else the value.
Evaluate(r) ==
    IF ~r.ok THEN EvalErr(r.err)
    ELSE IF r.result.exception # None
    THEN EvalErr(ScriptError(r.result.exception[1]))
    ELSE EvalOk(r.result.value)

\* Duration::as_secs of a time in units of 500 ms.
AsSecs(halves) == halves \div 2

\* wait_for_element(selector, t) is called: start = Instant::now().
WaitCall(t) ==
    /\ epc = "idle"
    /\ timeout_secs' = t
    /\ elapsed' = 0
    /\ epc' = "test"
    /\ UNCHANGED << evals, eval_in, eval_ret, wfe_ret >>
    /\ UNCHANGED << connVars, mgrVars, waitVars, resolveVars, scanVars, dropVars, launchVars >>

\* `while start.elapsed().as_secs() < timeout_secs`, and Ok(false) after it.
WaitTest ==
    /\ epc = "test"
    /\ IF AsSecs(elapsed) < timeout_secs
       THEN epc' = "evaluate" /\ UNCHANGED wfe_ret
       ELSE epc' = "done" /\ wfe_ret' = Some(WaitOk(FALSE))
    /\ UNCHANGED << timeout_secs, elapsed, evals, eval_in, eval_ret >>
    /\ UNCHANGED << connVars, mgrVars, waitVars, resolveVars, scanVars, dropVars, launchVars >>

\* WaitPoll taking an error of evaluate for "not found".
WaitPollSwallowsError(r, d) ==
    /\ epc = "evaluate"
    /\ evals' = evals + 1
    /\ eval_in' = Some(r)
    /\ eval_ret' = Some(Evaluate(r))
    /\ elapsed' = elapsed + d
    /\ IF Evaluate(r).ok /\ UnwrapOr(AsBool(Evaluate(r).value), FALSE)
       THEN epc' = "done" /\ wfe_ret' = Some(WaitOk(TRUE))
       ELSE epc' = "sleep" /\ UNCHANGED wfe_ret
    /\ UNCHANGED timeout_secs
    /\ UNCHANGED << connVars, mgrVars, waitVars, resolveVars, scanVars, dropVars, launchVars >>

\* WaitPoll going on to poll after an evaluation gave true.
WaitPollKeepsPolling(r, d) ==
    /\ epc = "evaluate"
    /\ evals' = evals + 1
    /\ eval_in' = Some(r)
    /\ eval_ret' = Some(Evaluate(r))
    /\ elapsed' = elapsed + d
    /\ IF ~Evaluate(r).ok
       THEN epc' = "done" /\ wfe_ret' = Some(WaitErr(Evaluate(r).err))
       ELSE epc' = "sleep" /\ UNCHANGED wfe_ret
    /\ UNCHANGED timeout_secs
    /\ UNCHANGED << connVars, mgrVars, waitVars, resolveVars, scanVars, dropVars, launchVars >>

\* The body of the loop up to the sleep: self.evaluate(&script).await?, which
\* takes d units of time and whose send_command returns r; Ok(true) when
\* result.as_bool().unwrap_or(false).
WaitPoll(r, d) ==
    /\ epc = "evaluate"
    /\ evals' = evals + 1
    /\ eval_in' = Some(r)
    /\ eval_ret' = Some(Evaluate(r))
    /\ elapsed' = elapsed + d
    /\ IF ~Evaluate(r).ok
       THEN epc' = "done" /\ wfe_ret' = Some(WaitErr(Evaluate(r).err))
       ELSE IF UnwrapOr(AsBool(Evaluate(r).value), FALSE)
       THEN epc' = "done" /\ wfe_ret' = Some(WaitOk(TRUE))
       ELSE epc' = "sleep" /\ UNCHANGED wfe_ret
    /\ UNCHANGED timeout_secs
    /\ UNCHANGED << connVars, mgrVars, waitVars, resolveVars, scanVars, dropVars, launchVars >>

\* sleep(Duration::from_millis(500)).await
WaitSleep ==
    /\ epc = "sleep"
    /\ elapsed' = elapsed + 1
    /\ epc' = "test"
    /\ UNCHANGED << timeout_secs, evals, eval_in, eval_ret, wfe_ret >>
    /\ UNCHANGED << connVars, mgrVars, waitVars, resolveVars, scanVars, dropVars, launchVars >>

NextPage ==
    \/ \E t \in 0..MaxTimeoutSecs : WaitCall(t)
    \/ WaitTest
    \/ \E r \in CommandReturns : \E d \in 0..MaxEvalHalves : WaitPoll(r, d)
    \/ WaitSleep

SpecPage == Init /\ [][NextPage]_vars

\* ------------------------------------------------------------------ claims
Started == {c \in Calls : cid[c] # 0}
OnWire(c) == \E i \in 1..Len(wire) : wire[i] = cid[c]
InPending(c) == cid[c] \in DOMAIN pending /\ pending[cid[c]] = c

\* What C1 says of every state: pairwise distinct identifiers; no responder
\* sent to twice; a transmitted command whose caller still awaits it is either
\* still answerable (its entry is in the pending table, its channel open) or
\* its answer sits in the caller's channel; and a call that has returned has
\* returned the one outcome sent for it.
C1_Safety ==
    /\ \A c, d \in Started : c # d => cid[c] # cid[d]
    /\ \A c \in Calls : sends[c] <= 1
    /\ \A c \in Calls : (pc[c] = "returned") = (ret[c] # None)
    /\ \A c \in Calls :
         (pc[c] = "awaiting" /\ OnWire(c))
         => IF cid[c] \in answered
            THEN slot[c].st = "sent"
            ELSE InPending(c) /\ slot[c].st = "open"
    /\ \A c \in Calls :
         pc[c] = "returned"
         => /\ cid[c] \in answered
            /\ sends[c] = 1
            /\ slot[c].st = "sent"
            /\ ret[c] = slot[c].val

\* C1: on a connection whose WebSocket stays open and whose peer answers each
\* transmitted command once, concurrent calls get distinct identifiers, no
\* outcome is delivered twice or lost while its caller awaits it, and every
\* call that is not given up returns, with the outcome sent for it.
C1_DistinctIdsExactlyOneOutcome ==
    /\ []C1_Safety
    /\ \A c \in Calls : <>(pc[c] \in {"returned", "abandoned"})

\* Two calls in flight at once, the later one answered and returned first.
C1_Witness ==
    \E c, d \in Calls :
        /\ cid[c] # 0 /\ cid[c] < cid[d]
        /\ pc[c] = "awaiting" /\ OnWire(c) /\ slot[c].st = "open"
        /\ pc[d] = "returned" /\ ret[d] # None /\ ret[d][1].ok
        /\ sends[d] = 1

\* C2: the k-th identifier handed out is k, the counter is one past the
\* number of identifiers handed out, and the identifiers held by the calls
\* are exactly 1..N.
C2_IdentifiersAreOneToN ==
    /\ \A i \in 1..Len(assigned) : assigned[i] = i
    /\ next_id = Len(assigned) + 1
    /\ {cid[c] : c \in Started} = 1..Len(assigned)
    /\ Cardinality(Started) = Len(assigned)

C2_Witness ==
    /\ Len(assigned) = NumCalls
    /\ NumCalls >= 2
    /\ \A c \in Calls : pc[c] = "assigned"

\* A command is resolved once its responder was sent to or dropped.
Resolved(c) == slot[c].st \in {"sent", "closed"} \/ resolvedBy[c] # "none"

\* C4: every command on the wire, and the command the writer is about to
\* transmit, is in the pending table or already resolved.
C4_InsertedBeforeTransmitted ==
    /\ \A c \in Calls : OnWire(c) => InPending(c) \/ Resolved(c)
    /\ wpc = "send" => InPending(wcur[1].resp) \/ Resolved(wcur[1].resp)

C4_Witness ==
    \E c \in Calls :
        OnWire(c) /\ InPending(c) /\ pc[c] = "awaiting" /\ slot[c].st = "open"

\* The failure for an "error" field e answering identifier k: its code and
\* message, or -1 and "unknown" where e has none.
ExpectedFailure(k, e) ==
    CdpError(k, IF e.code = None THEN -1 ELSE e.code[1],
                IF e.message = None THEN "unknown" ELSE e.message[1])

\* The text frames whose id is k.
AnswersTo(k) ==
    { Frame("text", IdU64(0, k), r, e) : r \in ResultFields, e \in ErrorFields }

\* The reader takes text frame f, whose id is the key k of the pending table,
\* while the caller of that command awaits its response.
ReaderMatches(f, k) ==
    /\ f.kind = "text"
    /\ f.id = IdU64(0, k)
    /\ k \in DOMAIN pending
    /\ pc[pending[k]] = "awaiting"
    /\ ReaderStep(f)

\* C3 as stated: a message whose id is a key of the pending table removes the
\* entry and delivers one outcome to the caller, the failure when it has an
\* "error" field and otherwise its result payload as the success value.
C3_AsStated ==
    [][\A k \in DOMAIN pending : \A f \in AnswersTo(k) :
         ReaderMatches(f, k) =>
           LET c == pending[k] IN
           /\ k \notin DOMAIN pending'
           /\ slot'[c].st = "sent"
           /\ sends'[c] = sends[c] + 1
           /\ IF f.error # None
              THEN slot'[c].val = Some(ExpectedFailure(k, f.error[1]))
              ELSE \E r \in ResultVals :
                     f.result = Some(r) /\ slot'[c].val = Some(Ok(r))]_vars

\* C3 (amended): a message whose id is a key of the pending table removes the
\* entry; it delivers the failure when it has an "error" field, else its
\* result payload when it has a "result" field; with neither field nothing is
\* sent and the responder is dropped, which closes the caller's channel.
C3_ReaderCorrelation ==
    [][\A k \in DOMAIN pending : \A f \in AnswersTo(k) :
         ReaderMatches(f, k) =>
           LET c == pending[k] IN
           /\ k \notin DOMAIN pending'
           /\ \A j \in DOMAIN pending \ {k} :
                j \in DOMAIN pending' /\ pending'[j] = pending[j]
           /\ \A d \in Calls \ {c} : slot'[d] = slot[d]
           /\ IF f.error # None
              THEN /\ slot'[c] = [st |-> "sent",
                                  val |-> Some(ExpectedFailure(k, f.error[1]))]
                   /\ sends'[c] = sends[c] + 1
              ELSE IF f.result # None
              THEN /\ slot'[c] = [st |-> "sent", val |-> Some(Ok(f.result[1]))]
                   /\ sends'[c] = sends[c] + 1
              ELSE /\ slot'[c] = [st |-> "closed", val |-> None]
                   /\ sends'[c] = sends[c]]_vars

\* One call resolved by an error message and another by a result message.
C3_Witness ==
    \E c, d \in Calls :
        /\ resolvedBy[c] = "error" /\ slot[c].st = "sent"
        /\ ~slot[c].val[1].ok /\ cid[c] \notin DOMAIN pending
        /\ resolvedBy[d] = "result" /\ slot[d].st = "sent"
        /\ slot[d].val[1].ok /\ cid[d] \notin DOMAIN pending

\* Text frame f carries no usable id, or an id in the u32 range that is not a
\* key of the pending table.
NoMatch(f) ==
    \/ f.id.kind # "u64"
    \/ f.id.hi = 0 /\ f.id.lo \notin DOMAIN pending

\* C5: a message with no id, or with an id in the 32-bit range that is not a
\* key of the pending table, changes neither the pending table nor any
\* caller's channel or result, and leaves the reader running.
\* (Written "kept, or no such step" so that the cheap half is tried first.)
C5_UnmatchedDiscarded ==
    [][\/ /\ pending' = pending
          /\ slot' = slot
          /\ sends' = sends
          /\ ret' = ret
          /\ pc' = pc
          /\ rpc' = "running"
       \/ ~ \E f \in TextFrames : NoMatch(f) /\ ReaderStep(f)]_vars

\* The reader has just discarded a message while a command is pending, and
\* that command is answered by a later message.
C5_Witness ==
    /\ rlast = "unmatched"
    /\ rpc = "running"
    /\ \E c \in Calls : InPending(c) /\ pc[c] = "awaiting" /\ slot[c].st = "open"

\* A failure is available to, or was returned by, the caller of c.
FailureDelivered(c) ==
    \/ slot[c].st = "closed"
    \/ slot[c].st = "sent" /\ ~slot[c].val[1].ok

\* C6 as stated: once the reader task has ended, every command that was in the
\* pending table at that moment is resolved with a failure.
C6_AsStated == rpc = "stopped" => \A c \in atExit : FailureDelivered(c)

\* C7 as stated: the commands in the pending table when the reader task ended
\* get no outcome afterwards while their caller keeps waiting.
C7_AsStated ==
    \A c \in atExit :
        /\ ret[c] = None
        /\ pc[c] = "awaiting" => slot[c].st = "open"

\* C7 (amended): the commands in the pending table when the reader task ended
\* never get a response outcome; they stay unresolved while the writer task
\* is running, and once the writer task has ended too their responders are
\* dropped with the pending table, so their calls fail with "Response channel
\* closed".
C7_PendingAtReaderExit ==
    \A c \in atExit :
        /\ sends[c] = 0
        /\ slot[c].st # "sent"
        /\ wpc # "stopped" => slot[c].st = "open" /\ ret[c] = None
        /\ wpc = "stopped" =>
             /\ slot[c].st = "closed"
             /\ ret[c] \in {None, Some(ChannelClosed)}
             /\ cid[c] \notin DOMAIN pending

\* The reader task has ended with a command pending whose caller still waits,
\* unresolved, while the writer task runs on.
C7_Witness ==
    \E c \in atExit :
        /\ rpc = "stopped" /\ wpc = "recv"
        /\ pc[c] = "awaiting" /\ slot[c].st = "open" /\ InPending(c)

\* C8 as stated: the call whose command the writer task failed to transmit
\* gets a failure.
C8_AsStated == \A c \in failed : FailureDelivered(c)

InSubmitted(c) == \E i \in 1..Len(submitted) : submitted[i] = cid[c]

\* C9: a call returns "Failed to send command to channel" exactly when it
\* found the queue closed (the writer task ended; the command was not queued
\* and no channel is left), and "Response channel closed" exactly when its
\* responder was dropped unsent; it returns a success only when one was sent.
C9_DistinctFailures ==
    /\ SendFailed # ChannelClosed
    /\ \A c \in Calls :
         pc[c] = "returned" =>
           CASE slot[c].st = "none" ->
                  /\ ret[c] = Some(SendFailed)
                  /\ wpc = "stopped"
                  /\ ~InSubmitted(c)
             [] slot[c].st = "closed" ->
                  /\ ret[c] = Some(ChannelClosed)
                  /\ sends[c] = 0
                  /\ InSubmitted(c)
             [] slot[c].st = "sent" ->
                  /\ ret[c] = slot[c].val
                  /\ sends[c] = 1
                  /\ InSubmitted(c)
             [] OTHER -> FALSE
    /\ \A c \in Calls :
         (ret[c] # None /\ ret[c][1].ok) => slot[c].st = "sent"

\* One call failed on the closed queue and another on its dropped responder.
C9_Witness ==
    \E c, d \in Calls :
        /\ ret[c] = Some(SendFailed)
        /\ ret[d] = Some(ChannelClosed)

\* C10: the identifiers on the wire are, in order, the first identifiers that
\* entered the queue; the writer holds at most the one command it is sending.
C10_WireFollowsSubmission ==
    /\ Len(wire) <= Len(submitted)
    /\ \A i \in 1..Len(wire) : wire[i] = submitted[i]
    /\ Len(wcur) <= 1
    /\ wcur # None => wcur[1].id = submitted[Len(wire) + 1]

\* Two commands transmitted in submission order, which is not the order of
\* their identifiers.
C10_Witness ==
    /\ Len(wire) >= 2
    /\ wire[1] > wire[2]
    /\ submitted[1] = wire[1] /\ submitted[2] = wire[2]

\* The number of times the command of call c was transmitted.
Transmissions(c) == Cardinality({i \in 1..Len(wire) : wire[i] = cid[c]})

\* C16: the command of every call is on the wire at most once, whatever became
\* of the call; a command whose transmission failed is not on the wire at
\* all, and a command that was never queued is neither queued nor on the wire.
C16_TransmittedAtMostOnce ==
    /\ \A c \in Calls : Transmissions(c) <= 1
    /\ \A c \in failed : Transmissions(c) = 0
    /\ \A c \in Calls :
         ret[c] = Some(SendFailed) =>
           /\ Transmissions(c) = 0
           /\ \A i \in 1..Len(queue) : queue[i].resp # c
    /\ \A c \in Calls :
         Cardinality({i \in 1..Len(queue) : queue[i].resp = c})
           + (IF wcur # None /\ wcur[1].resp = c THEN 1 ELSE 0)
           + Transmissions(c) <= 1

\* One call has returned a success, transmitted once, and the transmission of
\* another has failed, which is not tried again.
C16_Witness ==
    \E c, d \in Calls :
        /\ ret[c] # None /\ ret[c][1].ok /\ Transmissions(c) = 1
        /\ d \in failed /\ wpc = "stopped" /\ Transmissions(d) = 0
        /\ pc[d] = "returned"

\* Some call was given up while its command was queued, pending or in flight.
SomeAbandoned == \E a \in Calls : pc[a] = "abandoned"

\* The expected delivery of answer f to identifier k: see C3.
Delivered(k, f) ==
    IF f.error # None
    THEN [st |-> "sent", val |-> Some(ExpectedFailure(k, f.error[1]))]
    ELSE IF f.result # None
    THEN [st |-> "sent", val |-> Some(Ok(f.result[1]))]
    ELSE [st |-> "closed", val |-> None]

\* C17: when the reader takes the answer to a command whose caller gave up, it
\* removes the entry, hands the outcome to nobody and runs on, every other
\* entry, channel and call being left as it was; with a call given up, the
\* answer to a command whose caller still waits is delivered to that caller
\* as ever, and every call that waits while another was given up comes to
\* its end.  (A step of the reader on a message it matches leaves rlast at
\* "matched" and moves neither a caller nor the writer: these tests come
\* first because they are cheap.)
C17_AbandonAffectsOnlyThatCall ==
    /\ [][(SomeAbandoned /\ rlast' = "matched" /\ pc' = pc /\ wpc' = wpc) =>
            \A k \in DOMAIN pending : \A f \in AnswersTo(k) :
              ReaderFrame(f) =>
                LET c == pending[k] IN
                /\ k \notin DOMAIN pending'
                /\ \A j \in DOMAIN pending \ {k} :
                     j \in DOMAIN pending' /\ pending'[j] = pending[j]
                /\ \A d \in Calls \ {c} : slot'[d] = slot[d]
                /\ rpc' = "running"
                /\ pc' = pc /\ ret' = ret
                /\ IF pc[c] = "abandoned"
                   THEN slot'[c].st # "sent" /\ slot'[c].val = None
                   ELSE pc[c] = "awaiting" => slot'[c] = Delivered(k, f)]_vars
    /\ \A d \in Calls :
         (SomeAbandoned /\ pc[d] = "awaiting") ~> (pc[d] # "awaiting")

\* The answer to a command given up has been taken and discarded, the reader
\* runs on, and another call has returned the success sent for it afterwards.
C17_Witness ==
    \E a, d \in Calls :
        /\ pc[a] = "abandoned" /\ resolvedBy[a] = "result"
        /\ OnWire(a) /\ cid[a] \notin DOMAIN pending /\ slot[a].st = "open"
        /\ rpc = "running"
        /\ wire[1] = cid[a]
        /\ pc[d] = "returned" /\ ret[d] # None /\ ret[d][1].ok
        /\ resolvedBy[d] = "result"

\* The get_browser calls that returned a browser, and the calls inside
\* CdpBrowser::launch.
GotBrowser == {c \in Gets : gret[c] # None /\ gret[c][1].ok}
Launching == {c \in Gets : gpc[c] \in {"launching", "resolving"}}

C12_AsStated == browser = 0 => stored \cap running = {}

\* The browser in the slot has been idle for longer than the threshold.
IdleTooLong == browser # 0 /\ now - last_used > IdleThresholdSecs

\* C13 as stated: a get_browser call made when the browser has been idle for
\* longer than the threshold goes on to launch a new browser.  (Stated for
\* the calls made while the monitor sleeps, its next wake-up yet to come.)
C13_AsStated ==
    [][\A c \in Gets :
         (IdleTooLong /\ now < mwake /\ GetBrowserLock(c)) =>
           gpc'[c] = "launching" /\ gret'[c] = None]_vars

\* C13 (amended): the monitor discards the browser at a wake-up, exactly when
\* it then finds last_used older than the threshold; a get_browser call that
\* finds the slot empty launches a process that was never in the slot, and one
\* that finds the browser still in the slot, however long it has been idle,
\* is given that browser and makes it fresh again.
C13_RelaunchAfterDiscard ==
    /\ [][MonitorWake => (browser' = 0) = (browser = 0 \/ IdleTooLong)]_vars
    /\ [][browser' # browser => MonitorWake \/ \E c \in Gets : LaunchOk(c)]_vars
    /\ [][\A c \in Gets :
           GetBrowserLock(c) =>
             /\ last_used' = now
             /\ IF browser = 0
                THEN gpc'[c] = "launching" /\ gret'[c] = None
                ELSE gret'[c] = Some(Launched(browser)) /\ browser' = browser]_vars
    /\ [][\A c \in Gets :
           LaunchOk(c) => browser' \notin stored /\ browser' \in running]_vars

\* The first browser was discarded after its idle time and the second call
\* was given a new one.
C13_Witness ==
    /\ gret[1] = Some(Launched(1))
    /\ discards = 1
    /\ gret[2] = Some(Launched(2))
    /\ browser = 2 /\ 2 \in running

\* C14: the browser leaves the slot only in a step of the monitor, taken with
\* the lock free and last_used older than the threshold; a get_browser call
\* writes last_used as it takes the lock, and from then until it returns it
\* holds the lock (or has returned in the same step), so no discard falls
\* between its timestamp and its return.
C14_NoDiscardWithinThreshold ==
    /\ [][(browser # 0 /\ browser' # browser) =>
            /\ MonitorWake
            /\ now - last_used > IdleThresholdSecs
            /\ state_lock = 0
            /\ discards' = discards + 1]_vars
    /\ [][discards' # discards => browser # 0 /\ browser' = 0]_vars
    /\ [][\A c \in Gets : GetBrowserLock(c) =>
            /\ last_used' = now
            /\ discards' = discards
            /\ gpc'[c] = "done" \/ state_lock' = c]_vars
    /\ [][state_lock # 0 => discards' = discards /\ last_used' = last_used]_vars
    /\ [](\A c \in Gets :
            gpc[c] \in {"launching", "resolving"} => state_lock = c)

\* The monitor's sleep has ended while a get_browser call, which took the
\* lock after an earlier browser was discarded, is still launching.
C14_Witness ==
    /\ discards = 1
    /\ state_lock = 2 /\ gpc[2] = "resolving"
    /\ now >= mwake
    /\ now - last_used >= MonitorPeriodSecs

\* The get_browser calls that returned an error.
GotError == {c \in Gets : gret[c] # None /\ ~gret[c][1].ok}

\* C15: the step in which launch fails returns the error to its caller,
\* gives the lock back and leaves the slot empty; the slot never holds a
\* browser other than one a launch returned as Ok; and a call that finds the
\* slot empty goes on to launch, whatever failed before it.
C15_FailedLaunchLeavesSlotEmpty ==
    /\ [][\A c \in Gets :
           LaunchFail(c) =>
             /\ gret'[c] \in {Some(SpawnFailed), Some(ResolveFailed)}
             /\ \A d \in Gets \ {c} : gret'[d] = gret[d]
             /\ browser = 0 /\ browser' = 0
             /\ stored' = stored
             /\ held' = held
             /\ state_lock' = 0]_vars
    /\ [][\A c \in Gets :
           (browser = 0 /\ GetBrowserLock(c)) =>
             gpc'[c] = "launching" /\ state_lock' = c]_vars
    /\ [](/\ browser # 0 =>
               /\ browser \in stored
               /\ \E c \in GotBrowser : gret[c] = Some(Launched(browser))
          /\ \A c \in GotError : held[c] = 0
          /\ \A c \in GotBrowser : gret[c][1].browser \in stored)

\* The first call failed after it had spawned a child; the second call found
\* the slot empty, launched again and was given a browser.
C15_Witness ==
    /\ gret[1] = Some(ResolveFailed)
    /\ gret[2] = Some(Launched(2))
    /\ browser = 2
    /\ discards = 0

Attempts == attempt + (IF retry_ret # None /\ retry_ret[1].ok THEN 1 ELSE 0)

\* C19: get_ws_url_with_retry makes at most max_retries attempts; an attempt
\* that succeeds ends the call with its address; when every attempt has
\* failed the call returns the error of the last one; and once k attempts are
\* made the call has slept k - 1 times, never after the attempt it ends with.
C19_RetryWrapper ==
    /\ [](/\ Attempts <= max_retries
          /\ sleeps = IF rstep = "sleep" \/ attempt = max_retries
                       THEN (IF attempt = 0 THEN 0 ELSE attempt - 1)
                       ELSE attempt
          /\ retry_ret # None =>
               /\ rstep = "done"
               /\ sleeps = IF Attempts = 0 THEN 0 ELSE Attempts - 1
               /\ max_retries > 0 => retry_ret = url_ret
               /\ ~retry_ret[1].ok =>
                    /\ attempt = max_retries
                    /\ max_retries > 0 => retry_ret = last_error
                    /\ max_retries = 0 => retry_ret = Some(NoAttemptError))
    /\ [][\A x \in Exchanges :
           (RetryAttempt(x) /\ GetWsUrl(x).ok) =>
             retry_ret' = Some(GetWsUrl(x)) /\ rstep' = "done"]_vars
    /\ [][retry_ret # None => UNCHANGED resolveVars]_vars

\* All of the attempts allowed have failed, with a sleep between them, and
\* the call has returned the error of the last one.
C19_Witness ==
    /\ rstep = "done"
    /\ max_retries = MaxRetries /\ attempt = MaxRetries
    /\ sleeps = MaxRetries - 1
    /\ retry_ret = Some(HttpReadError)
    /\ http = Some(Exchange("ok", 200, "fail", NoBody))

\* C20: get_ws_url returns the "webSocketDebuggerUrl" string of a response
\* with a success status as it is; a response with a success status whose
\* JSON body has no such string fails with the field-absent Browser error,
\* which is not an Http error; a response with another status fails with the
\* Browser error holding that status and the body, whatever the body is.
\* (The transport failures give Http errors, a body that is not JSON a Json
\* error.)
C20_EndpointResolution ==
    url_ret # None =>
      LET x == http[1]
          r == url_ret[1]
          received == x.send = "ok" /\ x.read = "ok"
          success == x.status \in 200..299
      IN /\ (received /\ success /\ x.body.parse = "json"
               /\ x.body.field = "string")
               => r.ok /\ r.url = x.body.url
         /\ (received /\ success /\ x.body.parse = "json"
               /\ x.body.field # "string")
               => /\ r = FieldAbsentError(x.body)
                  /\ r.kind = "Browser"
                  /\ r \notin {HttpConnectError, HttpReadError}
         /\ (received /\ ~success)
               => ~r.ok /\ r = StatusError(x.status, x.body)
         /\ (received /\ success /\ x.body.parse # "json") => r = JsonError
         /\ ~received => ~r.ok /\ r.kind = "Http"
         /\ r.ok => received /\ success

\* A 404 response whose body holds a webSocketDebuggerUrl has failed with the
\* status-and-body error.
C20_Witness ==
    LET b == Body("json", "string", "ws://localhost:9222/devtools/page/ABC123")
    IN /\ http = Some(Exchange("ok", 404, "ok", b))
       /\ url_ret = Some(StatusError(404, b))

\* C23: every entry of the pending table holds the responder of the call that
\* took its key as identifier, so no identifier and no responder is in the
\* table twice; a command that is resolved is not in the table; a step never
\* replaces the responder of an entry; and the step that removes an entry is
\* the step that sends to its responder or drops it.
C23_PendingEntriesUnique ==
    /\ [](/\ \A k \in DOMAIN pending : cid[pending[k]] = k
          /\ \A c \in Calls : Resolved(c) \/ ret[c] # None => ~InPending(c))
    /\ [][/\ \A k \in DOMAIN pending \cap DOMAIN pending' :
               pending'[k] = pending[k]
          /\ \A k \in DOMAIN pending \ DOMAIN pending' :
               /\ slot[pending[k]].st = "open"
               /\ slot'[pending[k]].st \in {"sent", "closed"}]_vars

\* One command was answered and is out of the table while the next one is
\* still in it.
C23_Witness ==
    \E c, d \in Calls :
        /\ c # d
        /\ slot[c].st = "sent" /\ resolvedBy[c] # "none" /\ ~InPending(c)
        /\ InPending(d) /\ slot[d].st = "open"
        /\ Cardinality(DOMAIN pending) = 1

\* C29 as stated: the identifiers on the wire are strictly increasing.
C29_AsStated ==
    \A i, j \in 1..Len(wire) : i < j => wire[i] < wire[j]

\* C29: two commands are on the wire in the order in which they entered the
\* queue, and a call that takes its identifier when other commands have
\* entered the queue takes a larger identifier than theirs; so the command
\* with the smaller identifier is transmitted first unless the other call
\* took its identifier before this one entered the queue, and entered first.
C29_WireOrderIsQueueOrder ==
    /\ [](\A i, j \in 1..Len(wire) :
            i < j => \E a, b \in 1..Len(submitted) :
                        a < b /\ submitted[a] = wire[i] /\ submitted[b] = wire[j])
    /\ [][\A d \in Calls :
            cid[d] = 0 /\ cid'[d] # 0 =>
                \A i \in 1..Len(submitted) : submitted[i] < cid'[d]]_vars

\* The larger identifier went out first, and every call has returned.
C29_Witness ==
    /\ Len(wire) = 2
    /\ wire[1] > wire[2]
    /\ \A c \in Calls : ret[c] # None

\* The text frame with id k and neither a "result" nor an "error" field.
Neither(k) == Frame("text", IdU64(0, k), None, None)

\* C30: a message that has the id of an entry of the pending table and neither
\* a result nor an error removes the entry and drops its responder without
\* sending; a call whose entry went that way returns nothing but "Response
\* channel closed", and it does return.
C30_NeitherFieldClosesChannel ==
    /\ [][(rlast' = "matched" /\ pc' = pc /\ wpc' = wpc) =>
            \A k \in DOMAIN pending :
              ReaderMatches(Neither(k), k) =>
                /\ k \notin DOMAIN pending'
                /\ slot'[pending[k]] = [st |-> "closed", val |-> None]
                /\ sends' = sends]_vars
    /\ [](\A c \in Calls :
            resolvedBy[c] = "neither" /\ ret[c] # None =>
                ret[c] = Some(ChannelClosed))
    /\ \A c \in Calls :
         (resolvedBy[c] = "neither") ~> (ret[c] = Some(ChannelClosed))

\* A call has returned "Response channel closed" after such a message, with
\* both tasks still running.
C30_Witness ==
    \E c \in Calls :
        /\ resolvedBy[c] = "neither"
        /\ ret[c] = Some(ChannelClosed)
        /\ ~InPending(c)
        /\ wpc # "stopped" /\ rpc = "running"

\* C28 as stated: a failed launch leaves no process running, so every running
\* process is that of a browser that was stored in the slot or that of the
\* launch in progress.
C28_AsStated ==
    \A b \in running :
        \/ b \in stored
        \/ b = nspawn /\ \E c \in Gets : gpc[c] = "resolving"

\* Every get_browser call has been made and has returned.
AllDone == \A c \in Gets : gpc[c] = "done"

\* The clock of the model reaches the wake-up of the monitor that follows the
\* end of the threshold.
TimeLeft ==
    /\ now + MonitorPeriodSecs <= MaxTime
    /\ last_used + IdleThresholdSecs + MonitorPeriodSecs <= MaxTime

\* C24: a wake-up of the monitor that finds a browser in the slot with
\* last_used older than the threshold empties the slot; and a browser in the
\* slot after the last get_browser call has returned does not stay there.
C24_MonitorEmptiesIdleSlot ==
    /\ [][(mwake' # mwake /\ IdleTooLong) =>
            browser' = 0 /\ discards' = discards + 1]_vars
    /\ [][(mwake' # mwake /\ browser' # 0) =>
            now - last_used <= IdleThresholdSecs]_vars
    /\ (browser # 0 /\ AllDone /\ TimeLeft) ~> (browser = 0)

\* The monitor has emptied the slot after the last call returned, at its
\* first wake-up past the threshold.
C24_Witness ==
    /\ AllDone
    /\ GotBrowser = Gets
    /\ browser = 0 /\ discards = 1
    /\ mwake = now + MonitorPeriodSecs
    /\ now - last_used > IdleThresholdSecs
    /\ now - last_used <= IdleThresholdSecs + MonitorPeriodSecs

\* Where the text after the first separator of the line starts, and where a
\* slash and a further separator are found from there on.
AfterSeparator(line) == MinOf(Occurrences(line, Separator)) + Len(Separator)
LastLine == log[Len(log)]
SlashesAfter(line) ==
    {i \in AfterSeparator(line)..Len(line) : line[i] = Slash}
SeparatorsAfter(line) ==
    {i \in Occurrences(line, Separator) : i >= AfterSeparator(line)}

\* The port of a line whose token ends before position `stop`.
PortUpTo(line, stop) == ParseU16(SubSeq(line, AfterSeparator(line), stop - 1))

\* The port of the line as C21 states it: the token runs from the first
\* separator to the next slash (to the end of a line without one).
PortAsStated(line) ==
    IF ~Contains(line, Marker) \/ ~Contains(line, Separator) THEN None
    ELSE PortUpTo(line, MinOf(SlashesAfter(line) \cup {Len(line) + 1}))

\* The port of the line with a token that also ends at the next separator.
PortOfLine(line) ==
    IF ~Contains(line, Marker) \/ ~Contains(line, Separator) THEN None
    ELSE PortUpTo(line, MinOf(SlashesAfter(line) \cup SeparatorsAfter(line)
                                \cup {Len(line) + 1}))

\* Two lines that are the same up to the slash after their first separator.
SameUpToSlash(l1, l2) ==
    /\ Contains(l1, Separator) /\ SlashesAfter(l1) # {}
    /\ Len(l2) >= MinOf(SlashesAfter(l1))
    /\ SubSeq(l2, 1, MinOf(SlashesAfter(l1))) = SubSeq(l1, 1, MinOf(SlashesAfter(l1)))

\* C21 as stated: the scanner takes from a line of the log (the last one
\* written: the others were the last one before) the port that the characters
\* between the first separator and the next slash form.
C21_AsStated ==
    log # <<>> => ParseLine(LastLine) = PortAsStated(LastLine)

\* C21: the scanner takes from a line with the marker (the last one written,
\* the others having been the last one before) the port formed by the
\* characters from the first separator to the next slash, the next separator
\* or the end of the line, and none when they form no 16-bit number; what
\* follows the slash changes nothing; and the port it stores is that of the
\* first line of the log that gives one, the lines before it giving none.
C21_PortOfFirstValidLine ==
    /\ log # <<>> =>
         /\ ParseLine(LastLine) = PortOfLine(LastLine)
         /\ \A l2 \in LogLines :
              SameUpToSlash(LastLine, l2) => ParseLine(l2) = ParseLine(LastLine)
    /\ port # None =>
         /\ port[1] \in 0..U16Max
         /\ scanner = "done"
         /\ \E i \in 1..Len(log) :
              /\ PortOfLine(log[i]) = port
              /\ \A j \in 1..(i - 1) : PortOfLine(log[j]) = None

\* The scanner stored 9222, read in the second line, after a first line with
\* the marker whose token, 65536, is no 16-bit number.
C21_Witness ==
    /\ Len(log) = 2
    /\ log[1] = Announcement(<< "6", "5", "5", "3", "6" >>) \o BrowserPath
    /\ log[2] = Announcement(Port9222) \o BrowserPath
    /\ port = Some(9222)
    /\ scanner = "done"

\* C22: Drop::drop runs once for a browser, when its last Arc goes; it calls
\* kill on the child once, on a child that runs or has exited, and returns
\* whatever kill returned; from then on the browser tracks no process and no
\* kill is called again; a child that ran is killed, and one that had exited
\* keeps its exit status.
C22_DropKillsAtMostOnce ==
    /\ [](\A b \in Browsers :
            /\ Len(kills[b]) <= 1
            /\ drop_ret[b] \in {None, Some("returned")}
            /\ drop_ret[b] # None <=> arcs[b] = 0
            /\ drop_ret[b] # None =>
                  process[b] = None /\ Len(kills[b]) = 1 /\ child[b] # Running
            /\ drop_ret[b] = None => process[b] = Some(b) /\ kills[b] = <<>>)
    /\ [][\A b \in Browsers :
            drop_ret[b] # None =>
              /\ kills'[b] = kills[b] /\ process'[b] = None
              /\ child'[b] = child[b] /\ drop_ret'[b] = drop_ret[b]]_vars
    /\ [][\A b \in Browsers :
            drop_ret[b] = None /\ drop_ret'[b] # None =>
              child'[b] = IF child[b] = Running THEN Killed ELSE child[b]]_vars

\* One browser was dropped while its child ran, the other after its child
\* had exited with status 1, and there the kill failed.
C22_Witness ==
    \E a, b \in Browsers :
        /\ drop_ret[a] = Some("returned") /\ child[a] = Killed
        /\ kills[a] = << "Ok" >>
        /\ drop_ret[b] = Some("returned") /\ child[b] = Exited(1)
        /\ kills[b] = << "Err" >>
        /\ process[a] = None /\ process[b] = None

\* C25: launch ends, with a browser or with an error; the port wait makes at
\* most 300 polls, each endpoint resolution at most 10 attempts with at most
\* 9 sleeps between them, and a resolution that ends returns a URL found in
\* one of these attempts or the error of the tenth.
C25_LaunchTerminates ==
    /\ <>(lstep = "done")
    /\ [](/\ polls <= PortPolls
          /\ attempt <= LaunchRetries /\ sleeps <= LaunchRetries - 1
          /\ lstep \in {"resolve", "verify"} =>
                /\ max_retries = LaunchRetries
                /\ rstep = "done" =>
                     IF retry_ret[1].ok THEN attempt < LaunchRetries
                     ELSE attempt = LaunchRetries
          /\ lstep = "done" <=> launch_ret # None
          /\ launch_ret # None /\ launch_ret[1].ok =>
                port = Some(launch_ret[1].port))

\* Launch has returned the error of the tenth attempt of its second endpoint
\* resolution, nine sleeps after the first attempt.
C25_Witness ==
    /\ launch_ret # None /\ ~launch_ret[1].ok
    /\ attempt = LaunchRetries /\ sleeps = LaunchRetries - 1
    /\ wait_ret # None /\ wait_ret[1].ok
    /\ lstep = "done" /\ rstep = "done"
    /\ retry_ret = Some(HttpConnectError)

\* C26: evaluate returns the error of send_command as it is; on a result with
\* an "exceptionDetails" member it returns the script error, with the line,
\* the column and the text the member holds, and no value; on any other
\* result it returns result.value.
C26_EvaluateOutcome ==
    eval_in # None =>
        LET r == eval_in[1]
            out == eval_ret[1]
        IN /\ eval_ret # None
           /\ ~r.ok => out = EvalErr(r.err)
           /\ r.ok /\ r.result.exception # None =>
                /\ ~out.ok /\ out.value = JNull
                /\ out.err.kind = "Browser"
                /\ out.err.says = "JavaScript execution error"
                /\ \E x \in ExceptionDetails :
                     /\ r.result.exception = Some(x)
                     /\ out.err.line = IF x.line = None THEN -1 ELSE x.line[1]
                     /\ out.err.column = IF x.column = None THEN -1 ELSE x.column[1]
                     /\ out.err.text =
                          IF x.description # None THEN x.description[1]
                          ELSE IF x.text # None THEN x.text[1]
                          ELSE "unknown error"
           /\ r.ok /\ r.result.exception = None =>
                out = EvalOk(r.result.value)

\* evaluate has made a script error of a result that holds both a value of
\* true and exceptionDetails with a text only.
C26_Witness ==
    /\ eval_in = Some(CommandOk(EvalResult(
                    Some(Details(None, Some("Error message"), None, None)),
                    JBool(TRUE))))
    /\ eval_ret = Some(EvalErr(PageError("Browser", "JavaScript execution error",
                                         -1, -1, "Error message")))

\* C27: wait_for_element returns true in the step in which an evaluation
\* gives the boolean true, and the error of an evaluation in the step in
\* which it fails; an evaluation that gives anything else is followed by the
\* sleep; it returns false only at the test of the loop, with the whole
\* seconds elapsed not below the timeout; once it has returned it evaluates
\* no more; with a timeout of 0 it returns false and has not evaluated.
C27_WaitForElement ==
    /\ [][evals' # evals =>
            LET out == eval_ret'[1] IN
            /\ epc = "evaluate" /\ wfe_ret = None /\ evals' = evals + 1
            /\ AsSecs(elapsed) < timeout_secs
            /\ IF ~out.ok THEN wfe_ret' = Some(WaitErr(out.err))
               ELSE IF out.value = JBool(TRUE) THEN wfe_ret' = Some(WaitOk(TRUE))
               ELSE wfe_ret' = None /\ epc' = "sleep"]_vars
    /\ [][wfe_ret' # wfe_ret /\ wfe_ret' = Some(WaitOk(FALSE)) =>
            /\ epc = "test" /\ evals' = evals
            /\ AsSecs(elapsed) >= timeout_secs]_vars
    /\ [][wfe_ret # None => evals' = evals /\ wfe_ret' = wfe_ret]_vars
    /\ [](epc = "done" <=> wfe_ret # None)
    /\ [](wfe_ret # None /\ timeout_secs = 0 =>
            wfe_ret = Some(WaitOk(FALSE)) /\ evals = 0)
    /\ [](wfe_ret = Some(WaitOk(FALSE)) /\ evals > 0 =>
            eval_ret[1].ok /\ eval_ret[1].value # JBool(TRUE))

\* The second poll gave true and the wait returned true.
C27_Witness ==
    /\ evals = 2
    /\ eval_ret = Some(EvalOk(JBool(TRUE)))
    /\ wfe_ret = Some(WaitOk(TRUE))
    /\ timeout_secs = 1

\* The calls whose commands were in the submission queue, not yet dequeued,
\* when the writer task ended: submitted, never held by the writer.
SubmittedIds == {submitted[i] : i \in 1..Len(submitted)}
DroppedWithQueue ==
    IF wpc = "stopped"
    THEN {c \in Calls : /\ cid[c] \in SubmittedIds \ WireIds
                        /\ c \notin failed}
    ELSE {}

\* C31: when the writer task stops after a failed transmission, the commands
\* still in the submission queue lose their responders in that step and each
\* of their send_command calls returns "Response channel closed"; from then on
\* the queue stays empty, nothing more is transmitted, and a send_command that
\* reaches its submission returns "Failed to send command to channel" in that
\* same step.
C31_QueuedCommandsFailAfterWriterStop ==
    /\ [][WriterSendErr =>
             /\ queue' = <<>>
             /\ \A i \in 1..Len(queue) : slot'[queue[i].resp].st = "closed"]_vars
    /\ [][wpc = "stopped" =>
             /\ queue' = <<>>
             /\ wire' = wire
             /\ submitted' = submitted
             /\ \A c \in Calls :
                   (pc[c] = "assigned" /\ pc'[c] # "assigned") =>
                       /\ pc'[c] = "returned"
                       /\ ret'[c] = Some(SendFailed)]_vars
    /\ \A c \in Calls :
          (c \in DroppedWithQueue) ~> (ret[c] = Some(ChannelClosed))

\* A command was queued behind the one whose transmission failed, and its
\* call has returned the failure.
C31_Witness ==
    /\ wpc = "stopped"
    /\ \E c \in DroppedWithQueue :
          /\ failed # {}
          /\ c \notin failed
          /\ ret[c] = Some(ChannelClosed)
          /\ cid[c] \notin WireIds

\* The frames the reader cannot use: text that is not JSON, JSON whose "id" is
\* missing or is no unsigned integer, and non-text frames.
Unusable ==
    {BadJson, NonText} \cup {f \in TextFrames : AsU64(f.id) = None}

\* C32: the reader task ends only on a read error, a Close frame or the end
\* of the stream; a frame it cannot use leaves it running and changes neither
\* the pending table nor any responder or returned value; and a proper answer
\* to a pending command that arrives after such a frame removes the entry and
\* delivers its outcome.
C32_OnlyExitFramesStopReader ==
    [][ /\ (rpc = "running" /\ rpc' = "stopped") =>
              \E f \in {CloseFrame, ReadError, StreamEnd} : ReaderFrame(f)
        /\ \A f \in Unusable :
              \/ /\ rpc' = "running"
                 /\ pending' = pending
                 /\ slot' = slot
                 /\ sends' = sends
                 /\ resolvedBy' = resolvedBy
                 /\ ret' = ret
              \/ ~ReaderFrame(f)
        /\ \A k \in DOMAIN pending : \A f \in ProperAnswers(k) :
              (rlast \in {"ignored", "unmatched"} /\ ReaderFrame(f)) =>
                  /\ k \notin DOMAIN pending'
                  /\ slot'[pending[k]] =
                        [st |-> "sent", val |-> Some(Outcome(k, f)[1])]
      ]_vars

\* A frame the reader cannot use arrived while a command was pending: the
\* reader task still runs and the command is still pending, unresolved.
C32_Witness ==
    /\ rlast \in {"ignored", "unmatched"}
    /\ rpc = "running"
    /\ \E k \in DOMAIN pending :
          /\ slot[pending[k]].st = "open"
          /\ pc[pending[k]] = "awaiting"
          /\ k \in WireIds

\* C33: a pending command with identifier k is resolved only by a message
\* whose id equals k; a message whose id lies outside the 32-bit range
\* (hi # 0, such as 2^32 + k) takes no entry out of the pending table and
\* reaches no responder.
C33_AsStated ==
    [][\A f \in TextFrames :
          /\ \A k \in DOMAIN pending :
                (ReaderFrame(f) /\ k \notin DOMAIN pending') =>
                    f.id = IdU64(0, k)
          /\ (f.id.kind = "u64" /\ f.id.hi # 0 /\ ReaderFrame(f)) =>
                (pending' = pending /\ slot' = slot /\ rlast' = "unmatched")
      ]_vars

====
